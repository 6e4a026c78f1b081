----------------------------- MODULE Management -----------------------------
(***************************************************************************)
(* The configuration store and those who use it: the start of the gateway  *)
(* (SeedFromConfig, buildManager) and the handlers of the management API   *)
(* for accounts, external proxies and settings.                            *)
(*                                                                         *)
(* Each SQL statement, transaction and call of the API is a step; handlers *)
(* of several requests run side by side and the process may end between    *)
(* any two steps.  The tables and the account stores outlive it.           *)
(*                                                                         *)
(* All hot settings are handled alike: one stands for all.  Passwords and  *)
(* cookies are left out, and so is the store_path of a row, which nobody   *)
(* reads: the store of an account is chosen by its place in the list.      *)
(***************************************************************************)
EXTENDS Naturals, Sequences, Functions

CONSTANTS Users,         \* usernames
          Addrs,         \* SOCKS5 addresses
          Values,        \* values of the setting that pass its check
          Envs,          \* what .env may say: accounts, proxies and the setting
          BadValue,      \* a value that does not pass
          Handlers,
          MaxOps,        \* bound: requests
          MaxFaults,     \* bound: failures and restarts
          None

ASSUME EnvAssumption ==
  /\ \A e \in Envs : e.accounts \in Seq(Users) /\ e.proxies \in Seq(Addrs) /\ e.value \in Values
  /\ BadValue \notin Values

VARIABLES
  accounts,     \* the table: id, user, enabled
  lastAccount,  \* AUTOINCREMENT
  proxies,      \* the table: id, addr
  fate,         \* what has become of each id of proxies, by its AUTOINCREMENT
  settings,     \* the stored value, None before the first seed
  holder,       \* the account stores by their place in the list: whose session is there
  env,          \* .env as the last start read it
  boot,         \* the process: down, seed, load, build or up
  managers,     \* the accounts buildManager goes through
  built,        \* how many managers there are
  live,         \* the value in the live configuration
  pc, hand,     \* where a handler is, and the row or value it works with
  gone,         \* history: ids of deleted accounts
  edited,       \* history: an account was deleted, renamed, enabled or disabled,
                \* or the accounts of .env were changed
  changed,      \* history: the setting was stored since the start
  overlap,      \* history: by two requests at a time
  ops, faults

tables == <<accounts, lastAccount, proxies, fate, settings>>
process == <<env, boot, managers, built>>
history == <<gone, edited, changed, overlap>>
vars == <<tables, holder, process, live, pc, hand, history, ops, faults>>

Init ==
  /\ accounts = {} /\ lastAccount = 0
  /\ proxies = {} /\ fate = <<>>
  /\ settings = None
  /\ holder = <<>>
  /\ env \in Envs
  /\ boot = "seed" /\ managers = <<>> /\ built = 0
  /\ live = env.value
  /\ pc = [h \in Handlers |-> "idle"]
  /\ hand = [h \in Handlers |-> None]
  /\ gone = {} /\ edited = FALSE /\ changed = FALSE /\ overlap = FALSE
  /\ ops = 0 /\ faults = 0

Fault == faults < MaxFaults /\ faults' = faults + 1

UserIn(rows, u) == \E r \in rows : r.user = u

AddrIn(rows, a) == \E r \in rows : r.addr = a

-----------------------------------------------------------------------------
(* The start                                                               *)

SeedRows == {[id |-> lastAccount + i, user |-> env.accounts[i], enabled |-> TRUE]
               : i \in DOMAIN env.accounts}

SeedProxies == {[id |-> Len(fate) + i, addr |-> env.proxies[i]] : i \in DOMAIN env.proxies}

\* SeedFromConfig seeds an empty table, in one transaction that fails as a
\* whole when a name or an address is there twice.
CanSeed ==
  /\ accounts = {}
  /\ IsInjective(env.accounts) /\ IsInjective(env.proxies)
  /\ \A a \in Range(env.proxies) : ~AddrIn(proxies, a)

Seed ==
  /\ boot = "seed"
  /\ CanSeed
  /\ accounts' = SeedRows
  /\ lastAccount' = lastAccount + Len(env.accounts)
  /\ proxies' = proxies \cup SeedProxies
  /\ fate' = fate \o [i \in DOMAIN env.proxies |-> "kept"]
  /\ settings' = env.value
  /\ boot' = "load"
  /\ UNCHANGED <<holder, env, managers, built, live, pc, hand, history, ops, faults>>

\* There are accounts, or the transaction failed, which is only logged.
SeedNot ==
  /\ boot = "seed"
  /\ \/ ~CanSeed /\ UNCHANGED faults
     \/ Fault
  /\ boot' = "load"
  /\ UNCHANGED <<tables, holder, env, managers, built, live, pc, hand, history, ops>>

\* The accounts after row n: its user is appended if the row is enabled and
\* the user is not there yet.
WithRow(rows, n, list) ==
  LET new == {r.user : r \in {q \in rows : q.id = n /\ q.enabled}} \ Range(list)
  IN  IF new = {} THEN list ELSE Append(list, CHOOSE u \in new : TRUE)

\* The loop over the rows in the order of their ids, after the accounts of .env,
\* list0.
LoadedUpTo(list0, rows, last) ==
  LET list[n \in 0 .. last] == IF n = 0 THEN list0 ELSE WithRow(rows, n, list[n - 1])
  IN  list

\* Mutant: the rows are read newest first.
LoadedNewest(rows) ==
  LoadedUpTo(env.accounts, {[r EXCEPT !.id = lastAccount + 1 - @] : r \in rows},
             lastAccount)[lastAccount]

Loaded(rows) == LoadedUpTo(env.accounts, rows, lastAccount)[lastAccount]

\* A table that cannot be read counts as empty.
Load ==
  /\ boot = "load"
  /\ \/ managers' = Loaded(accounts) /\ UNCHANGED faults
     \/ managers' = Loaded({}) /\ Fault
  /\ boot' = "build"
  /\ UNCHANGED <<tables, holder, env, built, live, pc, hand, history, ops>>

\* NewDockerManager of the next account opens the store of its place; it takes
\* the session that is there, or logs in.
Build ==
  /\ boot = "build"
  /\ built < Len(managers)
  /\ built' = built + 1
  /\ holder' = IF built' > Len(holder) THEN Append(holder, managers[built'])
               ELSE [holder EXCEPT ![built'] = IF @ = None THEN managers[built'] ELSE @]
  /\ UNCHANGED <<tables, env, boot, managers, live, pc, hand, history, ops, faults>>

Serve ==
  /\ boot = "build"
  /\ built = Len(managers)
  /\ boot' = "up"
  /\ UNCHANGED <<tables, holder, env, managers, built, live, pc, hand, history, ops, faults>>

\* The process ends: it is stopped, it crashes, or a manager cannot log in.
Exit ==
  /\ boot # "down"
  /\ Fault
  /\ boot' = "down" /\ managers' = <<>> /\ built' = 0
  /\ pc' = [h \in Handlers |-> "idle"]
  /\ hand' = [h \in Handlers |-> None]
  /\ fate' = [i \in DOMAIN fate |-> IF fate[i] = "probing" THEN "cut" ELSE fate[i]]
  /\ UNCHANGED <<accounts, lastAccount, proxies, settings, holder, env, live, history, ops>>

\* config.Load reads .env, which may have been changed; the stored settings are
\* not read.
Start ==
  /\ boot = "down"
  /\ boot' = "seed"
  /\ env' \in Envs
  /\ live' = env'.value
  /\ edited' = (edited \/ env'.accounts # env.accounts)
  /\ changed' = FALSE /\ overlap' = FALSE
  /\ UNCHANGED <<tables, holder, managers, built, pc, hand, gone, ops, faults>>

\* A session ends, and its manager logs in with its own account.
SessionEnds(i) ==
  /\ holder[i] # None
  /\ holder' = [holder EXCEPT ![i] = None]
  /\ UNCHANGED <<tables, process, live, pc, hand, history, ops, faults>>

EnsureSession(i) ==
  /\ holder[i] = None
  /\ holder' = [holder EXCEPT ![i] = managers[i]]
  /\ UNCHANGED <<tables, process, live, pc, hand, history, ops, faults>>

-----------------------------------------------------------------------------
(* Requests                                                                *)

\* A handler is called and goes on at p with x in its hand.
Begins(h, p, x) ==
  /\ boot = "up"
  /\ ops < MaxOps
  /\ ops' = ops + 1
  /\ pc[h] = "idle"
  /\ pc' = [pc EXCEPT ![h] = p]
  /\ hand' = [hand EXCEPT ![h] = x]

Ends(h, p) ==
  /\ pc[h] = p
  /\ pc' = [pc EXCEPT ![h] = "idle"]
  /\ hand' = [hand EXCEPT ![h] = None]

\* handleCreateAccount; the credentials have been tried out.
CreateAccount(h, u, e) ==
  /\ Begins(h, "insert", [id |-> 0, user |-> u, enabled |-> e])
  /\ UNCHANGED <<tables, holder, process, live, history, faults>>

\* A username that is taken is refused.
InsertAccount(h) ==
  /\ Ends(h, "insert")
  /\ IF UserIn(accounts, hand[h].user)
     THEN UNCHANGED <<accounts, lastAccount>>
     ELSE /\ lastAccount' = lastAccount + 1
          /\ accounts' = accounts \cup {[hand[h] EXCEPT !.id = lastAccount']}
  /\ UNCHANGED <<proxies, fate, settings, holder, process, live, history, ops, faults>>

\* handleUpdateAccount reads the row and changes it in memory,
UpdateAccount(h, r, u, e) ==
  /\ r \in accounts
  /\ Begins(h, "update", [id |-> r.id, user |-> u, enabled |-> e])
  /\ UNCHANGED <<tables, holder, process, live, history, faults>>

\* Mutant: an upsert.
WriteAccountUpsert(h) ==
  /\ Ends(h, "update")
  /\ LET others == {r \in accounts : r.id # hand[h].id}
     IN  accounts' = IF UserIn(others, hand[h].user) THEN accounts ELSE others \cup {hand[h]}
  /\ edited' = TRUE
  /\ UNCHANGED <<lastAccount, proxies, fate, settings, holder, process, live, gone, changed,
                 overlap, ops, faults>>

\* and writes all of it back, if it is still there and the name is free.
WriteAccount(h) ==
  /\ Ends(h, "update")
  /\ LET others == {r \in accounts : r.id # hand[h].id}
     IN  accounts' = IF others = accounts \/ UserIn(others, hand[h].user) THEN accounts
                     ELSE others \cup {hand[h]}
  /\ edited' = (edited \/ accounts' # accounts)
  /\ UNCHANGED <<lastAccount, proxies, fate, settings, holder, process, live, gone, changed,
                 overlap, ops, faults>>

DeleteAccount(h, i) ==
  /\ Begins(h, "idle", None)
  /\ accounts' = {r \in accounts : r.id # i}
  /\ gone' = gone \cup {i}
  /\ edited' = TRUE
  /\ UNCHANGED <<lastAccount, proxies, fate, settings, holder, process, live, changed, overlap,
                 faults>>

\* handleCreateProxy enters the address, unless it is there,
CreateProxy(h, a) ==
  /\ ~AddrIn(proxies, a)
  /\ Begins(h, "probe", [id |-> Len(fate) + 1, addr |-> a])
  /\ proxies' = proxies \cup {hand'[h]}
  /\ fate' = Append(fate, "probing")
  /\ UNCHANGED <<accounts, lastAccount, settings, holder, process, live, history, faults>>

\* and has AddExternalProxy try it out: it answers,
ProbeOK(h) ==
  /\ Ends(h, "probe")
  /\ fate' = [fate EXCEPT ![hand[h].id] = IF @ = "probing" THEN "kept" ELSE @]
  /\ UNCHANGED <<accounts, lastAccount, proxies, settings, holder, process, live, history, ops,
                 faults>>

\* or it does not.
ProbeFails(h) ==
  /\ pc[h] = "probe"
  /\ pc' = [pc EXCEPT ![h] = "undo"]
  /\ UNCHANGED <<tables, holder, process, live, hand, history, ops, faults>>

\* Then the row of this request is deleted again, errors ignored.
UndoProxy(h) ==
  /\ Ends(h, "undo")
  /\ \/ /\ proxies' = {r \in proxies : r.id # hand[h].id}
        /\ fate' = [fate EXCEPT ![hand[h].id] = "failed"]
        /\ UNCHANGED faults
     \/ /\ Fault
        /\ fate' = [fate EXCEPT ![hand[h].id] = IF @ = "probing" THEN "cut" ELSE @]
        /\ UNCHANGED proxies
  /\ UNCHANGED <<accounts, lastAccount, settings, holder, process, live, history, ops>>

DeleteProxy(h, i) ==
  /\ Begins(h, "idle", None)
  /\ proxies' = {r \in proxies : r.id # i}
  /\ fate' = [fate EXCEPT ![i] = "deleted"]
  /\ UNCHANGED <<accounts, lastAccount, settings, holder, process, live, history, faults>>

\* Mutant: what could not be stored is applied.
UpdateSettingsInAnyCase(h, v) ==
  /\ Begins(h, "apply", v)
  /\ \/ settings' = v /\ UNCHANGED faults
     \/ Fault /\ UNCHANGED settings
  /\ changed' = TRUE
  /\ overlap' = (overlap \/ \E g \in Handlers : pc[g] = "apply")
  /\ UNCHANGED <<accounts, lastAccount, proxies, fate, holder, process, live, gone, edited>>

\* handleUpdateSettings: SetSettings commits, and the handler goes on.
UpdateSettings(h, v) ==
  /\ Begins(h, "apply", v)
  /\ settings' = v
  /\ changed' = TRUE
  /\ overlap' = (overlap \/ \E g \in Handlers : pc[g] = "apply")
  /\ UNCHANGED <<accounts, lastAccount, proxies, fate, holder, process, live, gone, edited,
                 faults>>

\* A value that passes its check becomes live.
ApplySettings(h) ==
  /\ Ends(h, "apply")
  /\ live' = IF hand[h] \in Values THEN hand[h] ELSE live
  /\ UNCHANGED <<tables, holder, process, history, ops, faults>>

\* A statement fails, and with it the request.
Breaks(h) ==
  /\ pc[h] \in {"insert", "update"}
  /\ Ends(h, pc[h])
  /\ Fault
  /\ UNCHANGED <<tables, holder, process, live, history, ops>>

Request(h) ==
  \/ \E u \in Users, e \in BOOLEAN : CreateAccount(h, u, e)
  \/ \E r \in accounts, u \in Users, e \in BOOLEAN : UpdateAccount(h, r, u, e)
  \/ \E i \in 1 .. lastAccount : DeleteAccount(h, i)
  \/ \E a \in Addrs : CreateProxy(h, a)
  \/ \E i \in DOMAIN fate : DeleteProxy(h, i)
  \/ \E v \in Values \cup {BadValue} : UpdateSettings(h, v)

Step(h) ==
  \/ InsertAccount(h) \/ WriteAccount(h) \/ ProbeOK(h) \/ ProbeFails(h) \/ UndoProxy(h)
  \/ ApplySettings(h) \/ Breaks(h)

Next ==
  \/ Seed \/ SeedNot \/ Load \/ Build \/ Serve \/ Exit \/ Start
  \/ \E i \in DOMAIN holder : SessionEnds(i)
  \/ \E i \in 1 .. built : EnsureSession(i)
  \/ \E h \in Handlers : Request(h) \/ Step(h)

Spec == Init /\ [][Next]_vars

-----------------------------------------------------------------------------
(* Properties                                                              *)

\* "Isolate store per account" (buildManager): over any number of restarts no
\* manager works with the session of another account, as long as accounts are
\* only added through the API and those of .env stay as they are.
StoreIsolated ==
  ~edited => \A i \in 1 .. built : holder[i] \in {None, managers[i]}

\* The comment without the exception.  An account that is deleted, disabled,
\* enabled or renamed, or added to .env, moves others to stores that are not
\* theirs.
StoreIsolatedAlways ==
  \A i \in 1 .. built : holder[i] \in {None, managers[i]}

\* The tables keep what the answers said, row by row (a row is its AUTOINCREMENT
\* id), whoever else was writing: the row of an external proxy that was created
\* stays until it is deleted, and that of one that failed its probe or was
\* deleted does not come back; an account's row is there until it is deleted,
\* and then never again.  A seed that finds no account enters the accounts and
\* proxies of .env as new rows, those that were deleted too: see SeedsOnce.
RowsFollow ==
  /\ \A r \in proxies : fate[r.id] \in {"probing", "kept", "cut"}
  /\ \A i \in DOMAIN fate : fate[i] = "kept" => \E r \in proxies : r.id = i
  /\ \A i \in DOMAIN fate : fate[i] = "probing" =>
       \E h \in Handlers : pc[h] \in {"probe", "undo"} /\ hand[h].id = i
  /\ \A i \in 1 .. lastAccount : i \in gone <=> ~\E r \in accounts : r.id = i

\* ".env values are seeded into the ConfigStore ... This is a one-time migration
\* - subsequent restarts ignore .env for these values" (docs/business-logic.md):
\* a start that finds the accounts table empty seeds again, and with that the
\* accounts, proxies and settings of .env that were deleted or changed return.
SeedsOnce == [][Seed => settings = None]_vars

\* "Hot-reloadable fields are applied to the live config pointer immediately on
\* save" (docs/architecture.md): when no request is at it, the gateway runs
\* with the stored value, unless two requests were at it at a time.
LiveFollows ==
  /\ boot = "up" /\ changed /\ ~overlap
  /\ \A h \in Handlers : pc[h] # "apply"
  /\ settings \in Values
  => live = settings

\* "All settings persist to SQLite and survive restarts" (docs/core-features.md):
\* they are stored, but no start reads them.
SettingsSurvive ==
  /\ boot = "up" /\ ~overlap
  /\ \A h \in Handlers : pc[h] # "apply"
  /\ settings \in Values
  => live = settings
=============================================================================
