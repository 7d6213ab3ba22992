----------------------------- MODULE BastionList -----------------------------
(* `brokre list` and what runs beside it: the local vault's records probed by a *)
(* pool of threads, the bastions of the registry asked over `brokre ssh`         *)
(* children, the MCP server's lists and execs with their timeouts, the editors  *)
(* of bastions.json, and the manage server, whose one request thread answers    *)
(* the gate's polls and itself asks a bastion when the page synchronises.       *)
EXTENDS Naturals, Sequences, FiniteSets, SequencesExt

CONSTANTS Lists,       \* the list calls
          Clients,     \* the HTTP requests the manage page sends
          Editors,     \* the `brokre bastion enable|disable` processes
          Cases,       \* the situations explored: options, records, requests, edits
          Concurrency, \* BROKRE_PROBE_CONCURRENCY
          MaxBastions, \* BROKRE_BASTION_MAX
          MaxLapses,   \* bound: how often the gate's session expires
          None,
          Empty,       \* bastions.json between fs::write's truncation and its write
          Torn         \* bastions.json with the bytes of two writers

ASSUME ListAssumption == /\ Concurrency \in Nat \ {0}
                         /\ MaxBastions \in Nat \ {0}
                         /\ MaxLapses \in Nat

\* The manage server and the MCP server's exec are told from the lists and editors.
ASSUME CallersAssumption == Lists \cap {"api", "exec"} = {} /\ "api" \notin Editors

\* The names of the vault's ssh records: the aliases that may be bastions
SshNames(k) == {k.records[i].name : i \in {i \in DOMAIN k.records : k.records[i].profile = "ssh"}}

\* A vault's records: no two have profile and name in common (VaultStore.UniqueAliases).
IsVault(records) ==
    /\ records \in Seq(ToSet(records))
    /\ \A i, j \in DOMAIN records :
           records[i].profile = records[j].profile /\ records[i].name = records[j].name => i = j

\* The vault, and those of the hosts that may be bastions, are vaults; a registry
\* to begin with is one the program wrote.
ASSUME CasesAssumption ==
    \A k \in Cases :
        /\ IsVault(k.records)
        /\ \A b \in SshNames(k) \cup ToSet(k.registry) :
               /\ IsVault(k.remote[b])
               /\ \A i \in DOMAIN k.remote[b] : k.remote[b][i].up \in BOOLEAN \cup {None}
        /\ k.registry \in Seq(ToSet(k.registry)) /\ IsInjective(k.registry)
        /\ Len(k.registry) <= MaxBastions
        /\ \A e \in Editors : k.edits[e] # None => k.edits[e].op \in {"enable", "disable"}

Callers == Lists \cup {"api", "exec"}   \* who waits for a `brokre ssh` child
Writers == Editors \cup {"api"}         \* who rewrites bastions.json

VARIABLES case,     \* the member of Cases this behaviour is about
          file,     \* bastions.json: a sequence of aliases, Empty or Torn
          locked,   \* no live bastion session
          lapses,
          expired,  \* the manage page's session expired (ManageState.session_expired)
          list,     \* the worker of each list call
          answer,   \* what each list call has answered
          exec,     \* the MCP exec call
          child,    \* the `brokre ssh <bastion> ...` child of each caller
          group,    \* ALL_PGIDS: the callers whose child is registered
          tracker,  \* the SessionTracker of each list call
          killed,   \* history: <<call that timed out, caller whose child it killed>>
          edit,     \* the registry's writers
          api,      \* the request thread of the manage server
          reply     \* what each request has got

vars == <<case, file, locked, lapses, expired, list, answer, exec, child, group,
          tracker, killed, edit, api, reply>>
registryVars == <<file, edit>>
gateVars == <<case, locked, lapses, expired>>
childVars == <<child, group, tracker, killed>>

Idle == [pc |-> "off", waits |-> FALSE, items |-> <<>>, begun |-> {}, rx |-> <<>>,
         todo |-> <<>>, got |-> {}]
NoChild == [st |-> "none", bastion |-> None]
NoAnswer == [kind |-> "none", items |-> <<>>]
NoEdit == [pc |-> "off", op |-> None, alias |-> None, new |-> <<>>, result |-> None]

------------------------------------------------------------------------------
(* The registry *)

\* An unreadable registry is an error to its readers, and to is_bastion_alias
\* (hence to the gate) one without bastions.
Readable == file \notin {Empty, Torn}
Registered(alias) == Readable /\ Contains(file, alias)

Start(op, alias) == [NoEdit EXCEPT !.pc = "load", !.op = op, !.alias = alias]

Ended(e, result) ==
    edit' = [edit EXCEPT ![e] = [NoEdit EXCEPT !.pc = "done", !.result = result]]
Rewrite(e, entries) ==
    edit' = [edit EXCEPT ![e].pc = "truncate", ![e].new = entries]

EnableTwice(e) ==                             \* mutant: the existing entry is not looked for
    LET alias == edit[e].alias
    IN  IF alias \notin SshNames(case) \/ ~Readable
        THEN Ended(e, "error")
        ELSE IF Len(file) >= MaxBastions THEN Ended(e, "refused")
        ELSE Rewrite(e, Append(file, alias))

\* enable_bastion, up to save_registry
Enable(e) ==
    LET alias == edit[e].alias
    IN  IF alias \notin SshNames(case) \/ ~Readable
        THEN Ended(e, "error")
        ELSE IF Contains(file, alias) THEN Ended(e, "ok")
        ELSE IF Len(file) >= MaxBastions THEN Ended(e, "refused")
        ELSE Rewrite(e, Append(file, alias))

\* entries.retain: the other entries, in their order
Retains(kept, entries, alias) ==
    \E place \in [DOMAIN kept -> DOMAIN entries] :
        /\ {place[k] : k \in DOMAIN kept} = {i \in DOMAIN entries : entries[i] # alias}
        /\ \A j, k \in DOMAIN kept : j < k => place[j] < place[k]
        /\ \A k \in DOMAIN kept : kept[k] = entries[place[k]]

\* disable_bastion, up to save_registry
Disable(e) ==
    LET alias == edit[e].alias
    IN  IF ~Readable THEN Ended(e, "error")
        ELSE IF ~Contains(file, alias) THEN Ended(e, "absent")
        ELSE \E kept \in SeqOf(ToSet(file), Len(file)) :
                 Retains(kept, file, alias) /\ Rewrite(e, kept)

EditLoad(e) ==
    /\ edit[e].pc = "load"
    /\ IF edit[e].op = "enable" THEN Enable(e) ELSE Disable(e)
    /\ UNCHANGED <<gateVars, file, list, answer, exec, childVars, api, reply>>

EditTruncate(e) ==
    /\ edit[e].pc = "truncate"
    /\ file' = Empty
    /\ edit' = [edit EXCEPT ![e].pc = "write"]
    /\ UNCHANGED <<gateVars, list, answer, exec, childVars, api, reply>>

\* Over another writer's bytes the longer of the two contents shows through.
EditWrite(e) ==
    /\ edit[e].pc = "write"
    /\ file' \in IF file = Empty THEN {edit[e].new} ELSE {edit[e].new, Torn}
    /\ Ended(e, "ok")
    /\ UNCHANGED <<gateVars, list, answer, exec, childVars, api, reply>>

EditorDies(e) ==
    /\ edit[e].pc \in {"truncate", "write"}
    /\ edit' = [edit EXCEPT ![e] = [NoEdit EXCEPT !.pc = "dead"]]
    /\ UNCHANGED <<gateVars, file, list, answer, exec, childVars, api, reply>>

------------------------------------------------------------------------------
(* The gate, as far as its callers wait for it: BastionSession has its inside *)

Shut == case.key /\ locked

\* The session expires or is cleared elsewhere; somebody unlocks at a terminal.
Lapse ==
    /\ case.key /\ ~locked /\ lapses < MaxLapses
    /\ locked' = TRUE /\ lapses' = lapses + 1
    /\ UNCHANGED <<case, file, expired, list, answer, exec, childVars, edit, api, reply>>

Unlock ==
    /\ Shut
    /\ locked' = FALSE
    /\ UNCHANGED <<case, file, lapses, expired, list, answer, exec, childVars, edit, api, reply>>

\* poll_until_unlocked_sync asks the manage server: a poll that failed, or
\* reached its timeout, is one the request thread has answered.
PollAnswered == api.pc = "idle"

------------------------------------------------------------------------------
(* The items of a list *)

Status(of, up, source) == [of |-> of, up |-> up, source |-> source]

\* Where a record is, told by the bastion on the way to it, and the item made of it
Record(route, rec) == [route |-> route, profile |-> rec.profile, name |-> rec.name]
Item(route, rec, kind, status) ==
    [from |-> Record(route, rec), addr |-> Append(route, rec.name), route |-> route,
     kind |-> kind, status |-> status]

LocalItem(rec) == Item(<<>>, rec, IF Registered(rec.name) THEN "bastion" ELSE "local", None)

\* fetch_bastion_items: what bastion b lists (--probe --no-bastion-discovery), as
\* seen from here; a record without a host has no status there either
Adopted(b) ==
    [i \in DOMAIN case.remote[b] |->
        LET rec == case.remote[b][i]
        IN  Item(<<b>>, rec, IF rec.kind = "local" THEN "inner" ELSE rec.kind,
                 IF rec.up = None THEN None ELSE Status(Record(<<b>>, rec), rec.up, b))]

\* probe_endpoint: the first address that accepts is used; an ssh endpoint must
\* also send a valid identification line.
Reachable(profile, net) ==
    \E k \in DOMAIN net : /\ net[k] = "ssh" \/ (net[k] = "mute" /\ profile # "ssh")
                          /\ \A j \in 1..(k - 1) : net[j] = "refused"

AppliedByArrival(items, rx, work) ==        \* mutant: results paired in order of arrival
    LET rank(i) == Cardinality({j \in work : j <= i})
    IN  [i \in DOMAIN items |->
            IF i \in work
            THEN [items[i] EXCEPT !.status = Status(rx[rank(i)].of, rx[rank(i)].up, "local")]
            ELSE items[i]]

\* The last loop of probe_items: each result goes to the item of its index.
Applied(items, rx, work) ==
    [i \in DOMAIN items |->
        IF i \in work
        THEN LET r == CHOOSE r \in ToSet(rx) : r.idx = i
             IN  [items[i] EXCEPT !.status = Status(r.of, r.up, "local")]
        ELSE items[i]]

\* filter_list_items: what was not probed counts as reachable. The items kept are
\* at the places they had, which tells their order.
Kept(items, only) ==
    [i \in {i \in DOMAIN items : only /\ items[i].status # None => items[i].status.up} |-> items[i]]

------------------------------------------------------------------------------
(* A list call *)

Opts(l) == case.lists[l]
Answered(l) == answer[l].kind # "none"
At(l, pc) == list' = [list EXCEPT ![l].pc = pc, ![l].waits = FALSE]

\* The worker stops; a call that has timed out keeps its answer.
Over(l, kind, items) ==
    /\ list' = [list EXCEPT ![l] = [Idle EXCEPT !.pc = "over", !.got = list[l].got]]
    /\ answer' = IF Answered(l) THEN answer
                 ELSE [answer EXCEPT ![l] = [kind |-> kind, items |-> items]]

ListStart(l) ==
    /\ list[l].pc = "off" /\ Opts(l) # None
    /\ At(l, "gate1")
    /\ UNCHANGED <<gateVars, registryVars, answer, exec, childVars, api, reply>>

\* The three gates of a list that asks bastions: before it starts, before it reads
\* the registry, and before each child.
Gates == {"gate1", "gate2", "gate3"}
Past == [gate1 |-> "build", gate2 |-> "registry", gate3 |-> "spawn"]
ListTouches(l) == Opts(l).include /\ Readable /\ file # <<>>
Applies(l) == IF list[l].pc = "gate3" THEN Registered(Head(list[l].todo))
              ELSE ListTouches(l)
AfterLocal(l) == IF Opts(l).include THEN "gate2" ELSE "finish"
AfterBastion(todo) == IF todo = <<>> THEN "finish" ELSE "gate3"

Gate(l) ==
    /\ list[l].pc \in Gates /\ ~list[l].waits
    /\ IF Shut /\ Applies(l) THEN list' = [list EXCEPT ![l].waits = TRUE]
       ELSE At(l, Past[list[l].pc])
    /\ UNCHANGED <<gateVars, registryVars, answer, exec, childVars, api, reply>>

GateOpens(l) ==
    /\ list[l].waits /\ ~locked
    /\ At(l, Past[list[l].pc])
    /\ UNCHANGED <<gateVars, registryVars, answer, exec, childVars, api, reply>>

\* The poll times out, or the passphrase typed at the terminal is wrong: the list
\* fails, or only this bastion is left out.
GateFails(l) ==
    /\ list[l].waits
    /\ Opts(l).mcp => PollAnswered
    /\ IF list[l].pc = "gate3"
       THEN /\ list' = [list EXCEPT ![l].pc = AfterBastion(Tail(list[l].todo)),
                                    ![l].waits = FALSE, ![l].todo = Tail(@)]
            /\ UNCHANGED answer
       ELSE Over(l, "locked", <<>>)
    /\ UNCHANGED <<gateVars, registryVars, exec, childVars, api, reply>>

Build(l) ==
    /\ list[l].pc = "build"
    /\ list' = [list EXCEPT ![l].items = [i \in DOMAIN case.records |-> LocalItem(case.records[i])],
                            ![l].pc = IF Opts(l).probe THEN "probe" ELSE AfterLocal(l)]
    /\ UNCHANGED <<gateVars, registryVars, answer, exec, childVars, api, reply>>

\* probe_items: one thread per record with a host, Concurrency of them at work
Work == {i \in DOMAIN case.records : case.records[i].host}
Arrived(l) == {r.idx : r \in ToSet(list[l].rx)}
Active(l) == list[l].begun \ Arrived(l)

ProbeStart(l) ==
    /\ list[l].pc = "probe" /\ Cardinality(Active(l)) < Concurrency
    /\ \E i \in Work \ list[l].begun : list' = [list EXCEPT ![l].begun = @ \cup {i}]
    /\ UNCHANGED <<gateVars, registryVars, answer, exec, childVars, api, reply>>

ProbeEnd(l) ==
    /\ list[l].pc = "probe"
    /\ \E i \in Active(l), net \in case.nets :
         LET r == [idx |-> i, of |-> list[l].items[i].from,
                   up |-> Reachable(case.records[i].profile, net)]
         IN  list' = [list EXCEPT ![l].rx = Append(@, r)]
    /\ UNCHANGED <<gateVars, registryVars, answer, exec, childVars, api, reply>>

ProbeJoin(l) ==
    /\ list[l].pc = "probe" /\ Arrived(l) = Work
    /\ list' = [list EXCEPT ![l].items = Applied(@, list[l].rx, Work), ![l].rx = <<>>,
                            ![l].begun = {}, ![l].pc = AfterLocal(l)]
    /\ UNCHANGED <<gateVars, registryVars, answer, exec, childVars, api, reply>>

ReadRegistry(l) ==
    /\ list[l].pc = "registry"
    /\ IF ~Readable THEN Over(l, "error", <<>>)
       ELSE LET todo == SubSeq(file, 1, IF Len(file) < MaxBastions THEN Len(file) ELSE MaxBastions)
            IN  /\ list' = [list EXCEPT ![l].todo = todo, ![l].pc = AfterBastion(todo)]
                /\ UNCHANGED answer
    /\ UNCHANGED <<gateVars, registryVars, exec, childVars, api, reply>>

Spawned(c, bastion) == child' = [child EXCEPT ![c] = [st |-> "gate", bastion |-> bastion]]

Spawn(l) ==
    /\ list[l].pc = "spawn"
    /\ Spawned(l, Head(list[l].todo))
    /\ At(l, "register")
    /\ UNCHANGED <<gateVars, registryVars, answer, exec, group, tracker, killed, api, reply>>

\* register_pgid, in the worker's thread: its tracker is the call's own
Register(l) ==
    /\ list[l].pc = "register"
    /\ group' = group \cup {l}
    /\ tracker' = [tracker EXCEPT ![l] = @ \cup {l}]
    /\ At(l, "await")
    /\ UNCHANGED <<gateVars, registryVars, answer, exec, child, killed, api, reply>>

\* A bastion that could not be listed is left out, with a warning on stderr.
Collect(l) ==
    LET b == Head(list[l].todo)
        found == child[l].st = "ok"
    IN  /\ list[l].pc = "await" /\ child[l].st \in {"ok", "failed"}
        /\ list' = [list EXCEPT ![l].items = IF found THEN @ \o Adopted(b) ELSE @,
                                ![l].got = IF found THEN @ \cup {b} ELSE @,
                                ![l].todo = Tail(@), ![l].pc = AfterBastion(Tail(list[l].todo))]
        /\ child' = [child EXCEPT ![l] = NoChild]
        /\ group' = group \ {l}
        /\ tracker' = [tracker EXCEPT ![l] = @ \ {l}]
        /\ UNCHANGED <<gateVars, registryVars, answer, exec, killed, api, reply>>

Finish(l) ==
    /\ list[l].pc = "finish"
    /\ Over(l, "items", Kept(list[l].items, Opts(l).only))
    /\ UNCHANGED <<gateVars, registryVars, exec, childVars, api, reply>>

KillsAll(l) == group                   \* mutant: every registered group is terminated
Kills(l) == tracker[l]                 \* SessionTracker::terminate

\* BROKRE_MCP_LIST_TIMEOUT: the call answers and ends its children; its worker
\* goes on to the remaining bastions.
McpTimeout(l) ==
    /\ Opts(l) # None /\ ~Answered(l)
    /\ list[l].pc \notin {"off", "gate1", "over"} /\ Opts(l).mcp
    /\ answer' = [answer EXCEPT ![l].kind = "late"]
    /\ child' = [c \in Callers |-> IF c \in Kills(l) THEN [child[c] EXCEPT !.st = "failed"]
                                   ELSE child[c]]
    /\ killed' = killed \cup {<<l, c>> : c \in Kills(l)}
    /\ group' = group \ Kills(l)
    /\ tracker' = [tracker EXCEPT ![l] = {}]
    /\ UNCHANGED <<gateVars, registryVars, list, exec, api, reply>>

------------------------------------------------------------------------------
(* The `brokre ssh <bastion>` children, processes with a gate of their own *)

Live == {"gate", "poll", "run"}
Becomes(c, st) == child' = [child EXCEPT ![c].st = st]

ChildGate(c) ==
    /\ child[c].st = "gate"
    /\ Becomes(c, IF Shut /\ Registered(child[c].bastion) THEN "poll" ELSE "run")
    /\ UNCHANGED <<gateVars, registryVars, list, answer, exec, group, tracker, killed, api, reply>>

ChildOpens(c) ==
    /\ child[c].st = "poll" /\ ~locked
    /\ Becomes(c, "run")
    /\ UNCHANGED <<gateVars, registryVars, list, answer, exec, group, tracker, killed, api, reply>>

ChildRefused(c) ==
    /\ child[c].st = "poll" /\ PollAnswered
    /\ Becomes(c, "failed")
    /\ UNCHANGED <<gateVars, registryVars, list, answer, exec, group, tracker, killed, api, reply>>

ChildEnds(c) ==
    /\ child[c].st = "run"
    /\ \E st \in {"ok", "failed"} : Becomes(c, st)
    /\ UNCHANGED <<gateVars, registryVars, list, answer, exec, group, tracker, killed, api, reply>>

Awaits(c) == IF c = "api" THEN api.pc = "await"
             ELSE IF c = "exec" THEN FALSE ELSE list[c].pc = "await"

NoDeadline(c) == FALSE                    \* mutant: the child is waited for without limit
\* wait_with_output_timeout: BROKRE_BASTION_RPC_TIMEOUT after it is waited for, the
\* child's group is killed.
Overdue(c) == Awaits(c) /\ child[c].st \in Live

Deadline(c) ==
    /\ Overdue(c)
    /\ Becomes(c, "failed")
    /\ killed' = killed \cup {<<c, c>>}
    /\ UNCHANGED <<gateVars, registryVars, list, answer, exec, group, tracker, api, reply>>

------------------------------------------------------------------------------
(* brokre_exec on a bastion: a child in a group of its own, in no tracker *)

ExecGate ==
    /\ exec = "off" /\ case.exec # None
    /\ IF Shut /\ Registered(case.exec) THEN exec' = "wait" ELSE exec' = "spawn"
    /\ UNCHANGED <<gateVars, registryVars, list, answer, childVars, api, reply>>

ExecAdmitted ==
    /\ exec = "wait"
    /\ \/ ~locked /\ exec' = "spawn"
       \/ PollAnswered /\ exec' = "over"
    /\ UNCHANGED <<gateVars, registryVars, list, answer, childVars, api, reply>>

ExecSpawn ==
    /\ exec = "spawn"
    /\ Spawned("exec", case.exec)
    /\ exec' = "await"
    /\ UNCHANGED <<gateVars, registryVars, list, answer, group, tracker, killed, api, reply>>

\* The child ends, or BROKRE_MCP_EXEC_TIMEOUT passes and its group is killed.
ExecEnds ==
    /\ exec = "await"
    /\ exec' = "over"
    /\ child' = [child EXCEPT !["exec"] = NoChild]
    /\ killed' = IF child["exec"].st \in Live THEN killed \cup {<<"exec", "exec">>} ELSE killed
    /\ UNCHANGED <<gateVars, registryVars, list, answer, group, tracker, api, reply>>

------------------------------------------------------------------------------
(* The manage server: one thread, one request at a time *)

Free == [pc |-> "idle", client |-> None]
Asked(c) == case.requests[c]

Send(c) ==
    /\ Asked(c) # None /\ reply[c] = "new"
    /\ reply' = [reply EXCEPT ![c] = "sent"]
    /\ UNCHANGED <<gateVars, registryVars, list, answer, exec, childVars, api>>

\* The page's session expires (the idle monitor, ManageInstance).
Expire ==
    /\ case.expires /\ ~expired
    /\ expired' = TRUE
    /\ UNCHANGED <<case, locked, lapses, registryVars, list, answer, exec, childVars, api, reply>>

MayRead(c) == ~expired /\ Asked(c).token # "none"       \* check_auth
MayWrite(c) == ~expired /\ Asked(c).token = "header"    \* check_write_auth
MayUnlock(c) == Asked(c).token # "none"                 \* check_bastion_gate_auth

Says(c, code) == reply' = [reply EXCEPT ![c] = code] /\ UNCHANGED api
Holds(c, pc) == api' = [pc |-> pc, client |-> c] /\ UNCHANGED reply

\* dispatch, for the requests answered at once
ServeUnlock(c) ==
    /\ Asked(c).op = "unlock"
    /\ IF MayUnlock(c) /\ case.key /\ Asked(c).good
       THEN locked' = FALSE /\ Says(c, "ok")
       ELSE UNCHANGED locked /\ Says(c, "denied")
    /\ UNCHANGED <<case, lapses, expired, registryVars>>

ServeLock(c) ==
    /\ Asked(c).op = "lock"
    /\ IF MayRead(c) /\ MayWrite(c)
       THEN locked' = TRUE /\ Says(c, "ok")
       ELSE UNCHANGED locked /\ Says(c, "denied")
    /\ UNCHANGED <<case, lapses, expired, registryVars>>

ServeShow(c) ==
    /\ Asked(c).op = "show"
    /\ Says(c, IF ~MayRead(c) THEN "denied" ELSE IF Readable THEN "ok" ELSE "error")
    /\ UNCHANGED <<gateVars, registryVars>>

\* ... for an edit of the registry ...
ServeEdit(c) ==
    /\ Asked(c).op \in {"enable", "disable"}
    /\ IF MayRead(c) /\ MayWrite(c)
       THEN edit' = [edit EXCEPT !["api"] = Start(Asked(c).op, Asked(c).alias)] /\ Holds(c, "edit")
       ELSE UNCHANGED edit /\ Says(c, "denied")
    /\ UNCHANGED <<gateVars, file>>

\* ... and for a bastion's list, which the thread waits for.
ServeSync(c) ==
    /\ Asked(c).op = "sync"
    /\ IF ~MayRead(c) THEN Says(c, "denied")
       ELSE IF Shut THEN Says(c, "locked")
       ELSE Holds(c, "gate")
    /\ UNCHANGED <<gateVars, registryVars>>

Serve(c) ==
    /\ api.pc = "idle" /\ reply[c] = "sent"
    /\ \/ ServeUnlock(c) \/ ServeLock(c) \/ ServeShow(c) \/ ServeEdit(c) \/ ServeSync(c)
    /\ UNCHANGED <<list, answer, exec, childVars>>

ApiSays(code) == reply' = [reply EXCEPT ![api.client] = code] /\ api' = Free

ApiEdited ==
    /\ api.pc = "edit" /\ edit["api"].pc = "done"
    /\ ApiSays(edit["api"].result)
    /\ edit' = [edit EXCEPT !["api"] = NoEdit]
    /\ UNCHANGED <<gateVars, file, list, answer, exec, childVars>>

\* run_on_bastion asks the gate again. If the session lapsed since the handler
\* looked, the thread prompts at the server's terminal, or polls the manage
\* server, that is itself.
ApiGate ==
    /\ api.pc = "gate"
    /\ IF Shut /\ Registered(Asked(api.client).alias)
       THEN /\ \E pc \in {"self", "asks"} : api' = [api EXCEPT !.pc = pc]
            /\ UNCHANGED <<child, group>>
       ELSE /\ api' = [api EXCEPT !.pc = "await"]
            /\ Spawned("api", Asked(api.client).alias)
            /\ group' = group \cup {"api"}
    /\ UNCHANGED <<gateVars, registryVars, list, answer, exec, tracker, killed, reply>>

\* The prompt at the terminal is answered.
ApiAsked ==
    /\ api.pc = "asks"
    /\ \/ /\ locked' = FALSE
          /\ api' = [api EXCEPT !.pc = "gate"]
          /\ UNCHANGED reply
       \/ ApiSays("error") /\ UNCHANGED locked
    /\ UNCHANGED <<case, lapses, expired, registryVars, list, answer, exec, childVars>>

ApiCollect ==
    /\ api.pc = "await" /\ child["api"].st \in {"ok", "failed"}
    /\ ApiSays(IF child["api"].st = "ok" THEN "ok" ELSE "error")
    /\ child' = [child EXCEPT !["api"] = NoChild]
    /\ group' = group \ {"api"}
    /\ UNCHANGED <<gateVars, registryVars, list, answer, exec, tracker, killed>>

------------------------------------------------------------------------------
Init ==
    /\ case \in Cases
    /\ file = case.registry /\ locked = case.locked
    /\ lapses = 0 /\ expired = FALSE
    /\ list = [l \in Lists |-> Idle]
    /\ answer = [l \in Lists |-> NoAnswer]
    /\ exec = "off"
    /\ child = [c \in Callers |-> NoChild]
    /\ group = {} /\ tracker = [l \in Lists |-> {}] /\ killed = {}
    /\ edit = [e \in Writers |-> IF e \in Editors THEN
                                    IF case.edits[e] = None THEN NoEdit
                                    ELSE Start(case.edits[e].op, case.edits[e].alias)
                                 ELSE NoEdit]
    /\ api = Free
    /\ reply = [c \in Clients |-> "new"]

EditNext == \/ \E e \in Writers : EditLoad(e) \/ EditTruncate(e) \/ EditWrite(e)
            \/ \E e \in Editors : EditorDies(e)

Worker(l) == \/ Gate(l) \/ GateOpens(l) \/ Build(l) \/ ProbeStart(l) \/ ProbeEnd(l)
             \/ ProbeJoin(l) \/ ReadRegistry(l) \/ Spawn(l) \/ Register(l) \/ Collect(l)
             \/ Finish(l)

ListNext == \E l \in Lists : ListStart(l) \/ Worker(l) \/ GateFails(l) \/ McpTimeout(l)

ChildNext == \E c \in Callers :
    ChildGate(c) \/ ChildOpens(c) \/ ChildRefused(c) \/ ChildEnds(c) \/ Deadline(c)

ExecNext == ExecGate \/ ExecAdmitted \/ ExecSpawn \/ ExecEnds

ApiNext == \/ \E c \in Clients : Send(c) \/ Serve(c)
           \/ Expire \/ ApiEdited \/ ApiGate \/ ApiAsked \/ ApiCollect

\* Every call asked for is over, or the server waits for itself.
Settled ==
    /\ \/ api.pc = "self"
       \/ /\ api.pc = "idle"
          /\ \A l \in Lists : Opts(l) # None => list[l].pc = "over"
          /\ \A c \in Clients : Asked(c) # None => reply[c] \notin {"new", "sent"}
          /\ case.exec # None => exec = "over"
    /\ UNCHANGED vars

Next == \/ EditNext \/ Lapse \/ Unlock \/ ListNext \/ ChildNext \/ ExecNext \/ ApiNext
        \/ Settled

\* Every thread and process goes on while it can, and every wait has a deadline: the
\* probes' sockets, the polls, the children and the MCP calls. A prompt at a
\* terminal, an unlock and a network that answers have none, and editors may die.
Fairness ==
    /\ \A l \in Lists : WF_vars(\/ Worker(l)
                                \/ Opts(l) # None /\ Opts(l).mcp /\ GateFails(l)
                                \/ McpTimeout(l))
    /\ \A c \in Callers : WF_vars(\/ ChildGate(c) \/ ChildOpens(c) \/ ChildRefused(c)
                                  \/ Deadline(c))
    /\ WF_vars(ExecNext)
    /\ WF_vars((\E c \in Clients : Serve(c)) \/ ApiEdited \/ ApiGate \/ ApiCollect)
    /\ WF_vars(EditLoad("api") \/ EditTruncate("api") \/ EditWrite("api"))

Spec == Init /\ [][Next]_vars /\ Fairness

------------------------------------------------------------------------------
(* Properties *)

\* An answered list says the truth about every entry, whatever order the probes
\* ended in and whichever bastions failed: its address is the one that leads to
\* the record it was made from, its status (if any) is that record's own, seen
\* from the host that probed it, and every record of this vault and of each
\* bastion that answered is there once, unless the list asked for reachable
\* entries only and this one was probed and found unreachable.
LocalRecords == {Record(<<>>, case.records[i]) : i \in DOMAIN case.records}
FarRecords(b) == {Record(<<b>>, case.remote[b][i]) : i \in DOMAIN case.remote[b]}
Expected(l) == LocalRecords \cup UNION {FarRecords(b) : b \in list[l].got}

\* Those of which no probe can have said that they are unreachable
Spared(l) ==
    {Record(<<>>, case.records[i]) : i \in IF Opts(l).probe THEN DOMAIN case.records \ Work
                                           ELSE DOMAIN case.records}
    \cup UNION {{Record(<<b>>, case.remote[b][i]) :
                    i \in {i \in DOMAIN case.remote[b] : case.remote[b][i].up # FALSE}} :
               b \in list[l].got}

Truthful(l, it) ==
    /\ it.addr = Append(it.from.route, it.from.name)
    /\ it.route = it.from.route
    /\ it.status # None =>
         /\ it.status.of = it.from
         /\ it.status.source = IF it.route = <<>> THEN "local" ELSE it.route[1]
         /\ Opts(l).only => it.status.up

ListTrue(l, items) ==
    LET named == {items[i].from : i \in DOMAIN items}
    IN  /\ \A i \in DOMAIN items : Truthful(l, items[i])
        /\ \A i, j \in DOMAIN items : items[i].from = items[j].from => i = j
        /\ named \subseteq Expected(l)
        /\ (IF Opts(l).only THEN Spared(l) ELSE Expected(l)) \subseteq named
ItemsTrue == \A l \in Lists : answer[l].kind = "items" => ListTrue(l, answer[l].items)

\* Calls that share a process end only their own children: a list that times out
\* kills no child of another list, of an exec or of the manage page, and whoever
\* has stopped waiting has left no child behind (a list that timed out stops
\* waiting when its worker does).
ChildrenOwn ==
    /\ \A k \in killed : k[1] = k[2]
    /\ \A l \in Lists : list[l].pc \in {"off", "finish", "over"} =>
           child[l] = NoChild /\ l \notin group /\ tracker[l] = {}
    /\ api.pc # "await" => child["api"] = NoChild /\ "api" \notin group
    /\ exec # "await" => child["exec"] = NoChild

\* However the edits of bastions.json overlap and wherever an editor dies, a
\* readable registry has no bastion twice, no more than the limit, and every
\* bastion it began with that nobody disables.
Disabled == {case.edits[e].alias : e \in {e \in Editors : case.edits[e] # None /\ case.edits[e].op = "disable"}}
            \cup {Asked(c).alias : c \in {c \in Clients : Asked(c) # None /\ Asked(c).op = "disable"}}
RegistryKept ==
    Readable => /\ IsInjective(file)
                /\ Len(file) <= MaxBastions
                /\ ToSet(case.registry) \ Disabled \subseteq ToSet(file)

\* Every list, exec and request is answered, although a child may wait at its
\* gate for the thread that waits for the child; excepted are a passphrase prompt
\* nobody answers and the server that polls itself.
Waived == api.pc \in {"self", "asks"}
CallReturns ==
    /\ \A l \in Lists : (list[l].pc # "off") ~> (Answered(l) \/ (list[l].waits /\ ~Opts(l).mcp) \/ Waived)
    /\ \A c \in Clients : (reply[c] = "sent") ~> (reply[c] # "sent" \/ Waived)
    /\ (exec # "off") ~> (exec = "over" \/ Waived)

==============================================================================
