------------------------- MODULE BastionList_proofs -------------------------
(***************************************************************************)
(* Proofs about BastionList: that calls sharing a process end only their   *)
(* own children and leave none behind, that a readable registry keeps what *)
(* nobody disables, however its writers overlap and die, and that a list   *)
(* is answered with the truth about every record, once each.               *)
(***************************************************************************)
EXTENDS BastionList, SequenceTheorems, TLAPS

-----------------------------------------------------------------------------
(* The inductive invariant *)

\* As much of the types as the steps rely on: who has an entry in each
\* table, and which fields the entry has.
Shaped ==
  /\ DOMAIN list = Lists
  /\ \A l \in Lists : {"pc", "waits"} \subseteq DOMAIN list[l]
  /\ DOMAIN child = Callers
  /\ DOMAIN tracker = Lists
  /\ DOMAIN edit = Writers
  /\ \A e \in Writers : {"pc", "op", "alias", "new"} \subseteq DOMAIN edit[e]
  /\ {"pc", "client"} \subseteq DOMAIN api
  /\ DOMAIN reply = Clients

\* Only a list at a gate waits for it.
AtGates == \A l \in Lists : list[l].waits => list[l].pc \in Gates

\* Where a list may have a child.
Held == {"register", "await"}

\* What a caller has: a tracker holds nothing but its own call's child, and a
\* child is there, is registered and is tracked only between the steps that
\* say so.
Tidy(c) ==
  /\ c = "api" /\ api.pc # "await" => child["api"] = NoChild /\ "api" \notin group
  /\ c = "exec" /\ exec # "await" => child["exec"] = NoChild
  /\ c \in Lists =>
       /\ tracker[c] \subseteq {c}
       /\ list[c].pc # "await" => tracker[c] = {} /\ c \notin group
       /\ list[c].pc \notin Held => child[c] = NoChild
AllTidy == \A c \in Callers : Tidy(c)
OwnKilled == \A k \in killed : k[1] = k[2]

\* The request thread works for a client that asked for something.
Asking ==
  /\ \A c \in Clients : reply[c] # "new" => Asked(c) # None
  /\ api.pc # "idle" => api.client \in Clients /\ Asked(api.client) # None

\* A registry of some aliases that has each of the kept ones.
Fits(entries, aliases, kept) ==
  /\ entries \in Seq(aliases)
  /\ IsInjective(entries)
  /\ Len(entries) <= MaxBastions
  /\ kept \subseteq ToSet(entries)

\* The aliases there may be, and those that nobody disables.
Aliases == SshNames(case) \cup ToSet(case.registry)
Undisabled == ToSet(case.registry) \ Disabled

\* What a writer is about to write was made from a readable registry, by an
\* edit that somebody asked for.
FileGood == Readable => Fits(file, Aliases, Undisabled)
EditGood(e) ==
  /\ edit[e].pc = "load" /\ edit[e].op # "enable" => edit[e].alias \in Disabled
  /\ edit[e].pc \in {"truncate", "write"} => Fits(edit[e].new, Aliases, Undisabled)
EditsGood == \A e \in Writers : EditGood(e)

IInv ==
  /\ case \in Cases
  /\ Shaped /\ AtGates
  /\ AllTidy /\ OwnKilled
  /\ Asking /\ FileGood /\ EditsGood

-----------------------------------------------------------------------------
(* What a step does to the lists and the children *)

\* The list call l may have moved, and no other.
Moved(l) ==
  /\ DOMAIN list' = Lists
  /\ \A m \in Lists \ {l} : list'[m] = list[m]
  /\ {"pc", "waits"} \subseteq DOMAIN list'[l]
  /\ list'[l].waits => list'[l].pc \in Gates

\* A step of the list call l that has no child before or after.
Walks(l) ==
  /\ Moved(l)
  /\ list[l].pc \notin Held /\ list'[l].pc \notin Held
  /\ UNCHANGED <<childVars, exec, api>>

\* A step of caller c: it touches nothing the other callers have.
Acts(c) ==
  /\ DOMAIN child' = Callers /\ DOMAIN tracker' = Lists
  /\ \A d \in Callers \ {c} : child'[d] = child[d]
  /\ \A l \in Lists \ {c} : list'[l].pc = list[l].pc /\ tracker'[l] = tracker[l]
  /\ c # "api" => api'.pc = api.pc
  /\ c # "exec" => exec' = exec
  /\ \A d \in Callers \ {c} : d \in group' => d \in group
  /\ killed' \subseteq killed \cup {<<c, c>>}
  /\ Tidy(c)'

\* A worker that stops waits for nothing.
LEMMA IsOver ==
  ASSUME DOMAIN list = Lists, NEW l \in Lists, NEW kind, NEW items, Over(l, kind, items)
  PROVE  /\ DOMAIN list' = Lists
         /\ \A m \in Lists \ {l} : list'[m] = list[m]
         /\ {"pc", "waits"} \subseteq DOMAIN list'[l]
         /\ list'[l].pc = "over" /\ ~list'[l].waits
<1> DEFINE stopped == [Idle EXCEPT !.pc = "over", !.got = list[l].got]
<1>1. list' = [list EXCEPT ![l] = stopped]
  BY DEF Over
<1>2. stopped.pc = "over" /\ ~stopped.waits /\ {"pc", "waits"} \subseteq DOMAIN stopped
  BY DEF Idle
<1> HIDE DEF stopped
<1> QED
  BY <1>1, <1>2

\* A list call at a gate, or anywhere but between its spawn and its collect,
\* stays without a child.
LEMMA WalkingSteps ==
  ASSUME Shaped, AtGates, NEW l \in Lists,
         \/ ListStart(l) \/ Gate(l) \/ GateOpens(l) \/ GateFails(l) \/ Build(l)
         \/ ProbeStart(l) \/ ProbeEnd(l) \/ ProbeJoin(l) \/ ReadRegistry(l) \/ Finish(l)
  PROVE  Walks(l)
<1> USE DEF Walks, Moved, Held, childVars
<1>1. /\ DOMAIN list = Lists /\ {"pc", "waits"} \subseteq DOMAIN list[l]
      /\ list[l].waits => list[l].pc \in Gates
      /\ \A m \in Lists : list[m].waits => list[m].pc \in Gates
  BY DEF Shaped, AtGates
<1>2. CASE ListStart(l)
  BY <1>1, <1>2 DEF ListStart, At
<1>3. CASE Gate(l)
  BY <1>1, <1>3 DEF Gate, At, Gates, Past
<1>4. CASE GateOpens(l)
  BY <1>1, <1>4 DEF GateOpens, At, Gates, Past
<1>5. CASE GateFails(l)
  <2>1. CASE list[l].pc = "gate3"
    <3>1. \E todo : \E pc \in {"finish", "gate3"} :
            list' = [list EXCEPT ![l].pc = pc, ![l].waits = FALSE, ![l].todo = todo]
      BY <1>5, <2>1, Zenon DEF GateFails, AfterBastion
    <3> QED
      BY <1>1, <1>5, <2>1, <3>1 DEF GateFails, Gates
  <2>2. CASE list[l].pc # "gate3"
    BY <1>1, <1>5, <2>2, IsOver DEF GateFails, Gates
  <2> QED
    BY <2>1, <2>2
<1>6. CASE Build(l)
  BY <1>1, <1>6 DEF Build, AfterLocal, Gates
<1>7. CASE ProbeStart(l)
  BY <1>1, <1>7 DEF ProbeStart, Gates
<1>8. CASE ProbeEnd(l)
  BY <1>1, <1>8 DEF ProbeEnd, Gates
<1>9. CASE ProbeJoin(l)
  BY <1>1, <1>9 DEF ProbeJoin, AfterLocal, Gates
<1>10. CASE ReadRegistry(l)
  <2>1. CASE Readable
    <3>1. \E todo : \E pc \in {"finish", "gate3"} :
            list' = [list EXCEPT ![l].todo = todo, ![l].pc = pc]
      BY <1>10, <2>1 DEF ReadRegistry, AfterBastion
    <3> QED
      BY <1>1, <1>10, <3>1 DEF ReadRegistry, Gates
  <2>2. CASE ~Readable
    BY <1>1, <1>10, <2>2, IsOver DEF ReadRegistry, Gates
  <2> QED
    BY <2>1, <2>2
<1>11. CASE Finish(l)
  BY <1>1, <1>11, IsOver DEF Finish, Gates
<1> QED
  BY <1>2, <1>3, <1>4, <1>5, <1>6, <1>7, <1>8, <1>9, <1>10, <1>11

\* A step between a list's spawn and its collect.
LEMMA HoldingSteps ==
  ASSUME Shaped, AtGates, NEW l \in Lists, Spawn(l) \/ Register(l) \/ Collect(l)
  PROVE  /\ Moved(l)
         /\ Spawn(l) => list[l].pc = "spawn" /\ list'[l].pc = "register"
         /\ Register(l) => list[l].pc = "register" /\ list'[l].pc = "await"
         /\ Collect(l) => list[l].pc = "await" /\ list'[l].pc \in {"finish", "gate3"}
<1> USE DEF Moved
<1>1. /\ DOMAIN list = Lists /\ {"pc", "waits"} \subseteq DOMAIN list[l]
      /\ list[l].waits => list[l].pc \in Gates
  BY DEF Shaped, AtGates
<1>2. CASE Spawn(l)
  BY <1>1, <1>2 DEF Spawn, Register, Collect, At, Gates
<1>3. CASE Register(l)
  BY <1>1, <1>3 DEF Spawn, Register, Collect, At, Gates
<1>4. CASE Collect(l)
  BY <1>1, <1>4 DEF Spawn, Register, Collect, AfterBastion, Gates
<1> QED
  BY <1>2, <1>3, <1>4

\* Each step of a list call is one of its own: the timeout, too, ends no
\* child but the call's.
LEMMA ListActs ==
  ASSUME IInv, NEW l \in Lists,
         ListStart(l) \/ Worker(l) \/ GateFails(l) \/ McpTimeout(l)
  PROVE  Acts(l)
<1>1. /\ DOMAIN child = Callers /\ DOMAIN tracker = Lists /\ DOMAIN list = Lists
      /\ l \in Callers /\ l \notin {"api", "exec"} /\ Tidy(l)
  BY CallersAssumption DEF IInv, Shaped, AllTidy, Callers
<1>2. /\ tracker[l] \subseteq {l}
      /\ list[l].pc # "await" => tracker[l] = {} /\ l \notin group
      /\ list[l].pc \notin Held => child[l] = NoChild
  BY <1>1 DEF Tidy
<1>3. CASE Walks(l)
  BY <1>1, <1>2, <1>3 DEF Walks, Moved, childVars, Acts, Tidy, Held
<1>4. CASE Spawn(l)
  <2>1. Moved(l) /\ list[l].pc = "spawn" /\ list'[l].pc = "register"
    BY <1>4, HoldingSteps DEF IInv
  <2>2. UNCHANGED <<api, exec, group, tracker, killed>>
        /\ \E b : child' = [child EXCEPT ![l] = b]
    BY <1>4 DEF Spawn, Spawned
  <2> QED
    BY <1>1, <1>2, <2>1, <2>2 DEF Moved, Acts, Tidy, Held
<1>5. CASE Register(l)
  <2>1. Moved(l) /\ list[l].pc = "register" /\ list'[l].pc = "await"
    BY <1>5, HoldingSteps DEF IInv
  <2>2. UNCHANGED <<api, exec, child, killed>> /\ group' = group \cup {l}
        /\ tracker' = [tracker EXCEPT ![l] = @ \cup {l}]
    BY <1>5 DEF Register
  <2> QED
    BY <1>1, <1>2, <2>1, <2>2 DEF Moved, Acts, Tidy, Held
<1>6. CASE Collect(l)
  <2>1. Moved(l) /\ list[l].pc = "await" /\ list'[l].pc \in {"finish", "gate3"}
    BY <1>6, HoldingSteps DEF IInv
  <2>2. UNCHANGED <<api, exec, killed>> /\ group' = group \ {l}
        /\ child' = [child EXCEPT ![l] = NoChild]
        /\ tracker' = [tracker EXCEPT ![l] = @ \ {l}]
    BY <1>6 DEF Collect
  <2> QED
    BY <1>1, <1>2, <2>1, <2>2 DEF Moved, Acts, Tidy, Held
<1>7. CASE McpTimeout(l)
  <2>1. UNCHANGED <<list, exec, api>> /\ group' = group \ tracker[l]
        /\ child' = [c \in Callers |-> IF c \in tracker[l]
                                       THEN [child[c] EXCEPT !.st = "failed"] ELSE child[c]]
        /\ killed' = killed \cup {<<l, c>> : c \in tracker[l]}
        /\ tracker' = [tracker EXCEPT ![l] = {}]
    BY <1>7 DEF McpTimeout, Kills
  <2>2. killed' \subseteq killed \cup {<<l, l>>}
    BY <1>2, <2>1
  <2>3. \A d \in Callers \ {l} : child'[d] = child[d]
    BY <1>2, <2>1
  <2>4. list[l].pc # "await" => child'[l] = child[l]
    BY <1>1, <1>2, <2>1
  <2> QED
    BY <1>1, <1>2, <2>1, <2>2, <2>3, <2>4 DEF Acts, Tidy, Held
<1> QED
  BY <1>3, <1>4, <1>5, <1>6, <1>7, WalkingSteps DEF Worker, IInv

\* Each step of a child, its caller's deadline included, is its caller's own.
LEMMA ChildActs ==
  ASSUME IInv, NEW c \in Callers,
         ChildGate(c) \/ ChildOpens(c) \/ ChildRefused(c) \/ ChildEnds(c) \/ Deadline(c)
  PROVE  Acts(c)
<1>1. /\ DOMAIN child = Callers /\ DOMAIN tracker = Lists /\ Tidy(c)
      /\ \A l \in Lists : l \in Callers /\ l \notin {"api", "exec"}
  BY CallersAssumption DEF IInv, Shaped, AllTidy, Callers
<1>2. /\ child[c] # NoChild
      /\ UNCHANGED <<list, api, exec, group, tracker>>
      /\ \E r : child' = [child EXCEPT ![c] = r]
      /\ killed' \subseteq killed \cup {<<c, c>>}
  BY DEF ChildGate, ChildOpens, ChildRefused, ChildEnds, Deadline, Overdue, Becomes,
         NoChild, Live
<1>3. Tidy(c)'
  BY <1>1, <1>2 DEF Tidy
<1> QED
  BY <1>1, <1>2, <1>3 DEF Acts

\* An exec's child is in no tracker and no list's.
LEMMA ExecActs ==
  ASSUME IInv, ExecNext
  PROVE  Acts("exec")
<1>1. /\ DOMAIN child = Callers /\ DOMAIN tracker = Lists /\ Tidy("exec")
      /\ "exec" \in Callers /\ "exec" \notin Lists
  BY CallersAssumption DEF IInv, Shaped, AllTidy, Callers
<1>2. /\ UNCHANGED <<list, api, group, tracker>>
      /\ \A d \in Callers \ {"exec"} : child'[d] = child[d]
      /\ DOMAIN child' = Callers
      /\ exec' # "await" => child'["exec"] = NoChild
      /\ killed' \subseteq killed \cup {<<"exec", "exec">>}
  <2>1. CASE ExecGate
    BY <1>1, <2>1 DEF ExecGate, childVars, Tidy
  <2>2. CASE ExecAdmitted
    BY <1>1, <2>2 DEF ExecAdmitted, childVars, Tidy
  <2>3. CASE ExecSpawn
    BY <1>1, <2>3 DEF ExecSpawn, Spawned
  <2>4. CASE ExecEnds
    BY <1>1, <2>4 DEF ExecEnds
  <2> QED
    BY <2>1, <2>2, <2>3, <2>4 DEF ExecNext
<1> QED
  BY <1>1, <1>2 DEF Acts, Tidy

\* What the rest of the steps leave alone: of the children, the request
\* thread has at most its own, which it waits for.
LEMMA ApiActs ==
  ASSUME IInv, EditNext \/ Lapse \/ Unlock \/ ApiNext \/ UNCHANGED vars
  PROVE  Acts("api")
<1>1. /\ DOMAIN child = Callers /\ DOMAIN tracker = Lists /\ Tidy("api")
      /\ "api" \in Callers /\ "api" \notin Lists /\ {"pc", "client"} \subseteq DOMAIN api
  BY CallersAssumption DEF IInv, Shaped, AllTidy, Callers
<1> DEFINE Rest == /\ UNCHANGED <<list, exec, childVars>>
                   /\ api'.pc = "await" => api.pc = "await"
                   /\ api.pc = "await" => api'.pc = "await"
<1>2. Rest => Acts("api")
  BY <1>1 DEF Acts, Tidy, childVars
<1>3. CASE EditNext \/ Lapse \/ Unlock \/ UNCHANGED vars
  BY <1>2, <1>3 DEF EditNext, EditLoad, EditTruncate, EditWrite, EditorDies, Lapse, Unlock,
     vars, childVars
<1>4. CASE (\E c \in Clients : Send(c)) \/ Expire
  BY <1>2, <1>4 DEF Send, Expire
<1>5. ASSUME NEW c \in Clients, Serve(c) PROVE Rest
  <2>1. UNCHANGED <<list, exec, childVars>> /\ api.pc = "idle"
    BY <1>5 DEF Serve
  <2>2. UNCHANGED api \/ api'.pc \in {"edit", "gate"}
    BY <1>5 DEF Serve, ServeUnlock, ServeLock, ServeShow, ServeEdit, ServeSync, Says, Holds
  <2> QED
    BY <2>1, <2>2
<1>6. CASE ApiEdited
  BY <1>2, <1>6 DEF ApiEdited, ApiSays, Free
<1>7. CASE ApiAsked
  BY <1>1, <1>2, <1>7 DEF ApiAsked, ApiSays, Free
<1>8. CASE ApiGate
  <2>1. CASE api'.pc # "await"
    <3>1. api.pc = "gate" /\ UNCHANGED <<list, exec, childVars>>
      BY <1>1, <1>8, <2>1 DEF ApiGate, childVars
    <3> QED
      BY <1>2, <2>1, <3>1
  <2>2. CASE api'.pc = "await"
    <3>1. /\ UNCHANGED <<list, exec, tracker, killed>>
          /\ \E b : child' = [child EXCEPT !["api"] = b]
          /\ group' = group \cup {"api"}
      BY <1>1, <1>8, <2>2 DEF ApiGate, Spawned
    <3> QED
      BY <1>1, <2>2, <3>1 DEF Acts, Tidy
  <2> QED
    BY <2>1, <2>2
<1>9. CASE ApiCollect
  <2>1. /\ UNCHANGED <<list, exec, tracker, killed>>
        /\ child' = [child EXCEPT !["api"] = NoChild]
        /\ group' = group \ {"api"}
    BY <1>9 DEF ApiCollect
  <2> QED
    BY <1>1, <2>1 DEF Acts, Tidy
<1> QED
  BY <1>2, <1>3, <1>4, <1>5, <1>6, <1>7, <1>8, <1>9 DEF ApiNext

\* Every step is one caller's, as far as the children go.
LEMMA StepActs ==
  ASSUME IInv, [Next]_vars
  PROVE  \E c \in Callers : Acts(c)
<1>1. /\ {"api", "exec"} \subseteq Callers
      /\ Lists \subseteq Callers
  BY DEF Callers
<1>2. CASE EditNext \/ Lapse \/ Unlock \/ ApiNext \/ UNCHANGED vars
  BY <1>1, <1>2, ApiActs
<1>3. CASE ListNext
  BY <1>1, <1>3, ListActs DEF ListNext
<1>4. CASE ChildNext
  BY <1>4, ChildActs DEF ChildNext
<1>5. CASE ExecNext
  BY <1>1, <1>5, ExecActs
<1> QED
  BY <1>2, <1>3, <1>4, <1>5 DEF Next, Settled

\* Whoever does not move keeps what it has.
LEMMA TidyKept ==
  ASSUME IInv, NEW c \in Callers, Acts(c)
  PROVE  AllTidy' /\ OwnKilled'
<1>1. ASSUME NEW d \in Callers, d # c PROVE Tidy(d)'
  <2>1. Tidy(d) /\ {"api", "exec"} \subseteq Callers /\ DOMAIN tracker = Lists
    BY DEF IInv, AllTidy, Callers, Shaped
  <2>2. /\ child'[d] = child[d] /\ (d \in group' => d \in group)
        /\ d = "api" => api'.pc = api.pc
        /\ d = "exec" => exec' = exec
        /\ d \in Lists => list'[d].pc = list[d].pc /\ tracker'[d] = tracker[d]
    BY <1>1 DEF Acts
  <2> QED
    BY <2>1, <2>2 DEF Tidy
<1>2. Tidy(c)' /\ Callers' = Callers
  BY DEF Acts, Callers
<1>3. AllTidy'
  BY <1>1, <1>2 DEF AllTidy
<1>4. OwnKilled'
  BY DEF Acts, IInv, OwnKilled
<1> QED
  BY <1>3, <1>4

-----------------------------------------------------------------------------
(* What a step does to the registry's writers and to the requests *)

\* Steps that have nothing to do with either.
Aside == UNCHANGED <<case, registryVars, api, reply>>

\* The writer e goes on; the file is as it was, being written, or written.
Writes(e) ==
  /\ EditLoad(e) \/ EditTruncate(e) \/ EditWrite(e) \/ (e \in Editors /\ EditorDies(e))
  /\ UNCHANGED <<case, api, reply>>

\* A request is sent, served or answered.
Answers ==
  /\ UNCHANGED <<case, file>>
  /\ \/ \E c \in Clients : Send(c) \/ Serve(c)
     \/ ApiEdited \/ ApiGate \/ ApiAsked \/ ApiCollect

LEMMA RegistrySteps ==
  ASSUME [Next]_vars
  PROVE  Aside \/ (\E e \in Writers : Writes(e)) \/ Answers
<1> USE DEF Aside, Writes, Answers, gateVars, registryVars
<1>1. CASE EditNext
  BY <1>1 DEF EditNext, EditLoad, EditTruncate, EditWrite, EditorDies, Writers
<1>2. CASE Lapse \/ Unlock \/ Expire \/ UNCHANGED vars
  BY <1>2, Zenon DEF Lapse, Unlock, Expire, vars
<1>3. ASSUME NEW l \in Lists, ListStart(l) \/ Worker(l) \/ GateFails(l) \/ McpTimeout(l)
      PROVE Aside
  BY <1>3 DEF ListStart, Worker, GateFails, McpTimeout, Gate, GateOpens, Build, ProbeStart,
     ProbeEnd, ProbeJoin, ReadRegistry, Spawn, Register, Collect, Finish
<1>4. CASE ChildNext
  BY <1>4 DEF ChildNext, ChildGate, ChildOpens, ChildRefused, ChildEnds, Deadline
<1>5. CASE ExecNext
  BY <1>5 DEF ExecNext, ExecGate, ExecAdmitted, ExecSpawn, ExecEnds
<1>6. ASSUME NEW c \in Clients, Serve(c) PROVE UNCHANGED <<case, file>>
  BY <1>6 DEF Serve, ServeUnlock, ServeLock, ServeShow, ServeEdit, ServeSync
<1>7. CASE ApiNext
  BY <1>2, <1>6, <1>7 DEF ApiNext, Send, ApiEdited, ApiGate, ApiAsked, ApiCollect
<1> QED
  BY <1>1, <1>2, <1>3, <1>4, <1>5, <1>7 DEF Next, Settled, ListNext

\* What is explored never changes, and with it what may be registered.
LEMMA CaseKept ==
  ASSUME [Next]_vars
  PROVE  case' = case /\ Aliases' = Aliases /\ Undisabled' = Undisabled /\ Disabled' = Disabled
<1>1. case' = case
  BY RegistrySteps DEF Aside, Writes, Answers
<1> QED
  BY <1>1 DEF Aliases, Undisabled, Disabled, Asked

-----------------------------------------------------------------------------
(* Registries *)

\* enable: a new alias at the end of a registry that has room.
LEMMA FitsAppend ==
  ASSUME NEW entries, NEW aliases, NEW kept, NEW alias \in aliases,
         Fits(entries, aliases, kept), ~Contains(entries, alias),
         ~(Len(entries) >= MaxBastions)
  PROVE  Fits(Append(entries, alias), aliases, kept)
<1> DEFINE new == Append(entries, alias)
<1>1. /\ entries \in Seq(aliases) /\ Len(entries) \in Nat /\ DOMAIN entries = 1..Len(entries)
      /\ MaxBastions \in Nat
  BY LenProperties, ListAssumption DEF Fits
<1>2. /\ new \in Seq(aliases) /\ Len(new) = Len(entries) + 1
      /\ \A i \in 1..Len(entries) : new[i] = entries[i]
      /\ new[Len(entries) + 1] = alias
  BY <1>1, AppendProperties
<1>3. DOMAIN new = 1..(Len(entries) + 1)
  BY <1>2, LenProperties
<1> HIDE DEF new
<1>4. Len(new) <= MaxBastions
  BY <1>1, <1>2
<1>5. \A i \in 1..Len(entries) : entries[i] # alias
  BY DEF Contains
<1>6. \A i \in DOMAIN new : i \in 1..Len(entries) \/ i = Len(entries) + 1
  BY <1>1, <1>3
<1>7. IsInjective(new)
  BY <1>1, <1>2, <1>5, <1>6 DEF IsInjective, Fits
<1>8. 1..Len(entries) \subseteq DOMAIN new
  BY <1>1, <1>3
<1>9. ToSet(entries) \subseteq ToSet(new)
  BY <1>1, <1>2, <1>8 DEF ToSet
<1> QED
  BY <1>2, <1>4, <1>7, <1>9 DEF Fits, new

\* disable: what is retained is a registry that has lost one alias.
LEMMA FitsRetain ==
  ASSUME NEW entries, NEW aliases, NEW kept, NEW alias, alias \notin kept,
         Fits(entries, aliases, kept),
         NEW new \in SeqOf(ToSet(entries), Len(entries)), Retains(new, entries, alias)
  PROVE  Fits(new, aliases, kept)
<1>1. /\ entries \in Seq(aliases) /\ Len(entries) \in Nat /\ DOMAIN entries = 1..Len(entries)
      /\ MaxBastions \in Nat /\ Len(entries) <= MaxBastions
  BY LenProperties, ListAssumption DEF Fits
<1>2. PICK n \in 0..Len(entries) : new \in [1..n -> ToSet(entries)]
  BY DEF SeqOf
<1>3. ToSet(entries) \subseteq aliases
  BY <1>1, ElementOfSeq DEF ToSet
<1>4. n \in Nat /\ n <= MaxBastions
  BY <1>1, <1>2
<1>5. new \in [1..n -> aliases]
  BY <1>2, <1>3
<1>6. new \in Seq(aliases) /\ Len(new) = n /\ DOMAIN new = 1..n
  BY <1>4, <1>5, SeqDef, LenProperties
<1>7. PICK place \in [DOMAIN new -> DOMAIN entries] :
         /\ {place[k] : k \in DOMAIN new} = {i \in DOMAIN entries : entries[i] # alias}
         /\ \A j, k \in DOMAIN new : j < k => place[j] < place[k]
         /\ \A k \in DOMAIN new : new[k] = entries[place[k]]
  BY DEF Retains
<1>8. ASSUME NEW j \in DOMAIN new, NEW k \in DOMAIN new, new[j] = new[k] PROVE j = k
  <2>1. place[j] \in DOMAIN entries /\ place[k] \in DOMAIN entries
    BY <1>7
  <2>2. place[j] = place[k]
    BY <1>7, <1>8, <2>1 DEF Fits, IsInjective
  <2>3. place[j] \in Nat /\ j \in Nat /\ k \in Nat
    BY <1>1, <1>6, <2>1
  <2>4. ~(j < k) /\ ~(k < j)
    BY <1>7, <2>2, <2>3
  <2> QED
    BY <2>3, <2>4
<1>9. ASSUME NEW a \in kept PROVE a \in ToSet(new)
  <2>1. PICK i \in DOMAIN entries : entries[i] = a
    BY DEF Fits, ToSet
  <2>2. PICK k \in DOMAIN new : place[k] = i
    BY <1>7, <2>1
  <2> QED
    BY <1>7, <2>1, <2>2 DEF ToSet
<1> QED
  BY <1>4, <1>6, <1>8, <1>9 DEF Fits, IsInjective

-----------------------------------------------------------------------------
(* The registry is kept *)

\* A writer that ends, well or not, has nothing to write.
LEMMA IsEnded ==
  ASSUME DOMAIN edit = Writers, NEW e \in Writers, NEW result, Ended(e, result)
  PROVE  /\ DOMAIN edit' = Writers
         /\ \A d \in Writers \ {e} : edit'[d] = edit[d]
         /\ {"pc", "op", "alias", "new"} \subseteq DOMAIN edit'[e]
         /\ edit'[e].pc = "done"
<1> DEFINE ended == [NoEdit EXCEPT !.pc = "done", !.result = result]
<1>1. edit' = [edit EXCEPT ![e] = ended]
  BY DEF Ended
<1>2. ended.pc = "done" /\ {"pc", "op", "alias", "new"} \subseteq DOMAIN ended
  BY DEF NoEdit
<1> HIDE DEF ended
<1> QED
  BY <1>1, <1>2

\* What a writer makes of a readable registry is one that may be written.
LEMMA LoadGood ==
  ASSUME IInv, NEW e \in Writers, EditLoad(e)
  PROVE  /\ file' = file
         /\ DOMAIN edit' = Writers
         /\ \A d \in Writers \ {e} : edit'[d] = edit[d]
         /\ {"pc", "op", "alias", "new"} \subseteq DOMAIN edit'[e]
         /\ edit'[e].pc # "load"
         /\ edit'[e].pc \in {"truncate", "write"} => Fits(edit'[e].new, Aliases, Undisabled)
<1>1. /\ DOMAIN edit = Writers /\ {"pc", "op", "alias", "new"} \subseteq DOMAIN edit[e]
      /\ EditGood(e) /\ FileGood /\ edit[e].pc = "load" /\ file' = file
  BY DEF IInv, Shaped, EditsGood, EditLoad
<1>2. ASSUME NEW result, Ended(e, result)
      PROVE  /\ DOMAIN edit' = Writers
             /\ \A d \in Writers \ {e} : edit'[d] = edit[d]
             /\ {"pc", "op", "alias", "new"} \subseteq DOMAIN edit'[e]
             /\ edit'[e].pc = "done"
  BY <1>1, <1>2, IsEnded
<1>3. ASSUME NEW entries, Fits(entries, Aliases, Undisabled), Rewrite(e, entries)
      PROVE  /\ DOMAIN edit' = Writers
             /\ \A d \in Writers \ {e} : edit'[d] = edit[d]
             /\ {"pc", "op", "alias", "new"} \subseteq DOMAIN edit'[e]
             /\ edit'[e].pc = "truncate" /\ Fits(edit'[e].new, Aliases, Undisabled)
  BY <1>1, <1>3 DEF Rewrite
<1>4. CASE edit[e].op = "enable"
  <2>1. \/ \E result : Ended(e, result)
        \/ /\ edit[e].alias \in SshNames(case)
           /\ Readable /\ ~Contains(file, edit[e].alias) /\ ~(Len(file) >= MaxBastions)
           /\ Rewrite(e, Append(file, edit[e].alias))
    BY <1>4 DEF EditLoad, Enable
  <2>2. CASE \E result : Ended(e, result)
    BY <1>1, <1>2, <2>2
  <2>3. CASE ~\E result : Ended(e, result)
    <3>1. edit[e].alias \in Aliases
      BY <2>1, <2>3 DEF Aliases
    <3>2. Fits(file, Aliases, Undisabled)
      BY <1>1, <2>1, <2>3 DEF FileGood
    <3>3. Fits(Append(file, edit[e].alias), Aliases, Undisabled)
      BY <2>1, <2>3, <3>1, <3>2, FitsAppend
    <3> QED
      BY <1>1, <1>3, <2>1, <2>3, <3>3
  <2> QED
    BY <2>2, <2>3
<1>5. CASE edit[e].op # "enable"
  <2>1. \/ \E result : Ended(e, result)
        \/ Readable /\ \E kept \in SeqOf(ToSet(file), Len(file)) :
                         Retains(kept, file, edit[e].alias) /\ Rewrite(e, kept)
    BY <1>5 DEF EditLoad, Disable
  <2>2. CASE \E result : Ended(e, result)
    BY <1>1, <1>2, <2>2
  <2>3. CASE ~\E result : Ended(e, result)
    <3>1. Fits(file, Aliases, Undisabled) /\ edit[e].alias \notin Undisabled
      BY <1>1, <1>5, <2>1, <2>3 DEF FileGood, EditGood, Undisabled
    <3>2. PICK kept \in SeqOf(ToSet(file), Len(file)) :
             Retains(kept, file, edit[e].alias) /\ Rewrite(e, kept)
      BY <2>1, <2>3
    <3>3. Fits(kept, Aliases, Undisabled)
      BY <3>1, <3>2, FitsRetain
    <3> QED
      BY <1>1, <1>3, <3>2, <3>3
  <2> QED
    BY <2>2, <2>3
<1> QED
  BY <1>1, <1>4, <1>5

\* A step of a writer other than its load: it empties the file, writes what
\* it made, or dies.
LEMMA WriterSteps ==
  ASSUME IInv, NEW e \in Writers,
         EditTruncate(e) \/ EditWrite(e) \/ EditorDies(e)
  PROVE  /\ DOMAIN edit' = Writers
         /\ \A d \in Writers \ {e} : edit'[d] = edit[d]
         /\ {"pc", "op", "alias", "new"} \subseteq DOMAIN edit'[e]
         /\ edit'[e].pc # "load"
         /\ edit'[e].pc \in {"truncate", "write"} =>
              edit'[e].new = edit[e].new /\ edit[e].pc = "truncate"
         /\ file' \in {file, Empty, Torn} \/ (file' = edit[e].new /\ edit[e].pc = "write")
<1>1. DOMAIN edit = Writers /\ {"pc", "op", "alias", "new"} \subseteq DOMAIN edit[e]
  BY DEF IInv, Shaped
<1>2. CASE EditTruncate(e)
  BY <1>1, <1>2 DEF EditTruncate
<1>3. CASE EditWrite(e)
  BY <1>1, <1>3, IsEnded DEF EditWrite
<1>4. CASE EditorDies(e)
  <2> DEFINE dead == [NoEdit EXCEPT !.pc = "dead"]
  <2>1. edit' = [edit EXCEPT ![e] = dead] /\ file' = file
    BY <1>4 DEF EditorDies
  <2>2. dead.pc = "dead" /\ {"pc", "op", "alias", "new"} \subseteq DOMAIN dead
    BY DEF NoEdit
  <2> HIDE DEF dead
  <2> QED
    BY <1>1, <2>1, <2>2
<1> QED
  BY <1>2, <1>3, <1>4

\* A writer's step keeps the registry, and what the writers are about to
\* make of it.
LEMMA WritesKeep ==
  ASSUME IInv, [Next]_vars, NEW e \in Writers, Writes(e)
  PROVE  FileGood' /\ EditsGood'
<1>1. /\ Aliases' = Aliases /\ Undisabled' = Undisabled /\ Disabled' = Disabled
      /\ FileGood /\ EditsGood
  BY CaseKept DEF IInv
<1>2. /\ \A d \in Writers \ {e} : edit'[d] = edit[d]
      /\ edit'[e].pc # "load"
      /\ edit'[e].pc \in {"truncate", "write"} => Fits(edit'[e].new, Aliases, Undisabled)
      /\ file' \in {file, Empty, Torn} \/ Fits(file', Aliases, Undisabled)
  BY <1>1, LoadGood, WriterSteps DEF Writes, EditsGood, EditGood
<1>3. FileGood'
  BY <1>1, <1>2 DEF FileGood, Readable
<1>4. ASSUME NEW d \in Writers PROVE EditGood(d)'
  <2>1. CASE d = e
    BY <1>1, <1>2, <2>1 DEF EditGood
  <2>2. CASE d # e
    BY <1>1, <1>2, <2>2 DEF EditGood, EditsGood
  <2> QED
    BY <2>1, <2>2
<1>5. EditsGood'
  BY <1>4 DEF EditsGood, Writers
<1> QED
  BY <1>3, <1>5

-----------------------------------------------------------------------------
(* Requests *)

\* Answering: the client's request is over.
Replied(c) ==
  /\ c \in Clients /\ Asked(c) # None
  /\ \E code : reply' = [reply EXCEPT ![c] = code]

\* What a step of the server does to the requests: a client that asked is
\* answered or has the thread, which keeps it until it answers.
LEMMA AnswerSteps ==
  ASSUME IInv, Answers
  PROVE  /\ reply' = reply \/ (\E c \in Clients : Replied(c))
         /\ \/ api' = Free
            \/ /\ {"pc", "client"} \subseteq DOMAIN api'
               /\ api'.pc # "idle" =>
                    api'.client \in Clients /\ Asked(api'.client) # None
<1>1. /\ {"pc", "client"} \subseteq DOMAIN api
      /\ \A c \in Clients : reply[c] # "new" => Asked(c) # None
      /\ api.pc # "idle" => api.client \in Clients /\ Asked(api.client) # None
  BY DEF IInv, Shaped, Asking
<1>2. ASSUME NEW c \in Clients, Send(c) PROVE Replied(c) /\ api' = api
  BY <1>2 DEF Send, Replied
<1>3. ASSUME NEW c \in Clients, Serve(c)
      PROVE  /\ Replied(c) \/ reply' = reply
             /\ api' = api \/ \E pc : api' = [pc |-> pc, client |-> c]
             /\ Asked(c) # None
  <2>1. Asked(c) # None
    BY <1>1, <1>3 DEF Serve
  <2>2. \/ (\E code : Says(c, code)) \/ (\E pc : Holds(c, pc))
    BY <1>3 DEF Serve, ServeUnlock, ServeLock, ServeShow, ServeEdit, ServeSync
  <2> QED
    BY <2>1, <2>2 DEF Says, Holds, Replied
<1>4. ASSUME NEW code, ApiSays(code), api.pc # "idle"
      PROVE  Replied(api.client) /\ api.client \in Clients /\ api' = Free
  BY <1>1, <1>4 DEF ApiSays, Replied
<1>5. CASE ApiEdited
  BY <1>4, <1>5 DEF ApiEdited
<1>6. CASE ApiGate
  BY <1>1, <1>6 DEF ApiGate
<1>7. CASE ApiAsked
  BY <1>1, <1>4, <1>7 DEF ApiAsked
<1>8. CASE ApiCollect
  BY <1>4, <1>8 DEF ApiCollect
<1>9. CASE \E c \in Clients : Send(c)
  BY <1>1, <1>2, <1>9
<1>10. CASE \E c \in Clients : Serve(c)
  <2>1. PICK c \in Clients : Serve(c)
    BY <1>10
  <2>2. CASE api' = api
    BY <1>1, <1>3, <2>1, <2>2
  <2>3. CASE \E pc : api' = [pc |-> pc, client |-> c]
    BY <1>3, <2>1, <2>3
  <2> QED
    BY <1>3, <2>1, <2>2, <2>3
<1> QED
  BY <1>5, <1>6, <1>7, <1>8, <1>9, <1>10 DEF Answers

\* The request thread stays with a client that asked for something.
LEMMA AskingKept ==
  ASSUME IInv, [Next]_vars
  PROVE  /\ Asking' /\ DOMAIN reply' = Clients
         /\ {"pc", "client"} \subseteq DOMAIN api'
<1>1. case' = case /\ Asking /\ DOMAIN reply = Clients /\ {"pc", "client"} \subseteq DOMAIN api
  BY CaseKept DEF IInv, Shaped
<1>3. CASE UNCHANGED <<api, reply>>
  BY <1>1, <1>3 DEF Asking, Asked
<1>4. CASE Answers
  <2>1. /\ reply' = reply \/ (\E c \in Clients : Replied(c))
        /\ \/ api' = Free
           \/ /\ {"pc", "client"} \subseteq DOMAIN api'
              /\ api'.pc # "idle" =>
                   api'.client \in Clients /\ Asked(api'.client) # None
    BY <1>4, AnswerSteps
  <2>2. DOMAIN reply' = Clients /\ \A c \in Clients : reply'[c] # "new" => Asked(c) # None
    BY <1>1, <2>1 DEF Replied, Asking
  <2>3. CASE api' = Free
    BY <1>1, <2>2, <2>3 DEF Asking, Asked, Free
  <2>4. CASE api' # Free
    BY <1>1, <2>1, <2>2, <2>4 DEF Asking, Asked
  <2> QED
    BY <2>3, <2>4
<1> QED
  BY <1>3, <1>4, RegistrySteps DEF Aside, Writes

\* The thread's own edit begins with a request to enable or to disable.
LEMMA AnswersEdit ==
  ASSUME IInv, Answers
  PROVE  /\ DOMAIN edit' = Writers
         /\ \A d \in Writers \ {"api"} : edit'[d] = edit[d]
         /\ {"pc", "op", "alias", "new"} \subseteq DOMAIN edit'["api"]
         /\ \/ edit' = edit
            \/ edit'["api"].pc = "off"
            \/ /\ edit'["api"].pc = "load"
               /\ edit'["api"].op # "enable" => edit'["api"].alias \in Disabled
<1>1. /\ DOMAIN edit = Writers /\ "api" \in Writers
      /\ \A e \in Writers : {"pc", "op", "alias", "new"} \subseteq DOMAIN edit[e]
      /\ \A c \in Clients : reply[c] # "new" => Asked(c) # None
  BY DEF IInv, Shaped, Asking, Writers
<1>2. CASE UNCHANGED edit
  BY <1>1, <1>2
<1>3. CASE ApiEdited
  BY <1>1, <1>3 DEF ApiEdited, NoEdit
<1>4. ASSUME NEW c \in Clients, reply[c] = "sent", ServeEdit(c),
             edit' = [edit EXCEPT !["api"] = Start(Asked(c).op, Asked(c).alias)]
      PROVE  /\ {"pc", "op", "alias", "new"} \subseteq DOMAIN edit'["api"]
             /\ edit'["api"].pc = "load"
             /\ edit'["api"].op # "enable" => edit'["api"].alias \in Disabled
  <2> DEFINE started == Start(Asked(c).op, Asked(c).alias)
  <2>1. /\ started.pc = "load" /\ started.op = Asked(c).op /\ started.alias = Asked(c).alias
        /\ {"pc", "op", "alias", "new"} \subseteq DOMAIN started
    BY DEF Start, NoEdit
  <2>2. Asked(c).op \in {"enable", "disable"} /\ Asked(c) # None
    BY <1>1, <1>4 DEF ServeEdit
  <2>3. Asked(c).op = "disable" => Asked(c).alias \in Disabled
    BY <2>2 DEF Disabled
  <2>4. edit'["api"] = started
    BY <1>1, <1>4
  <2> HIDE DEF started
  <2> QED
    BY <2>1, <2>2, <2>3, <2>4
<1>5. ASSUME NEW c \in Clients, Serve(c)
      PROVE  \/ UNCHANGED edit
             \/ /\ reply[c] = "sent" /\ ServeEdit(c)
                /\ edit' = [edit EXCEPT !["api"] = Start(Asked(c).op, Asked(c).alias)]
  BY <1>5 DEF Serve, ServeUnlock, ServeLock, ServeShow, ServeEdit, ServeSync, registryVars
<1>6. ASSUME NEW c \in Clients, Serve(c), ~UNCHANGED edit
      PROVE  /\ DOMAIN edit' = Writers
             /\ \A d \in Writers \ {"api"} : edit'[d] = edit[d]
  BY <1>1, <1>5, <1>6
<1>7. ASSUME NEW c \in Clients, Send(c) PROVE UNCHANGED edit
  BY <1>7 DEF Send, registryVars
<1>8. CASE ApiGate \/ ApiAsked \/ ApiCollect
  BY <1>2, <1>8 DEF ApiGate, ApiAsked, ApiCollect, registryVars
<1> QED
  BY <1>2, <1>3, <1>4, <1>5, <1>6, <1>7, <1>8 DEF Answers

\* The registry and what is to be written, across every step.
LEMMA RegistryStep ==
  ASSUME IInv, [Next]_vars
  PROVE  FileGood' /\ EditsGood'
<1>1. /\ Aliases' = Aliases /\ Undisabled' = Undisabled /\ Disabled' = Disabled
      /\ FileGood /\ EditsGood
  BY CaseKept DEF IInv
<1>2. CASE Aside
  BY <1>1, <1>2 DEF Aside, registryVars, FileGood, EditsGood, EditGood, Readable, Writers
<1>3. CASE \E e \in Writers : Writes(e)
  BY <1>3, WritesKeep
<1>4. CASE Answers
  <2>1. FileGood'
    BY <1>1, <1>4 DEF Answers, FileGood, Readable
  <2>2. ASSUME NEW d \in Writers PROVE EditGood(d)'
    <3>1. CASE edit'[d] = edit[d]
      BY <1>1, <3>1 DEF EditsGood, EditGood
    <3>2. CASE edit'[d] # edit[d]
      BY <1>1, <1>4, <3>2, AnswersEdit DEF EditGood
    <3> QED
      BY <3>1, <3>2
  <2> QED
    BY <2>1, <2>2 DEF EditsGood, Writers
<1> QED
  BY <1>2, <1>3, <1>4, RegistrySteps

-----------------------------------------------------------------------------
(* The invariant *)

\* The lists keep their fields and wait at gates only.
LEMMA ListsStep ==
  ASSUME IInv, [Next]_vars
  PROVE  AtGates' /\ DOMAIN list' = Lists
         /\ \A l \in Lists : {"pc", "waits"} \subseteq DOMAIN list'[l]
<1>1. /\ Shaped /\ AtGates
  BY DEF IInv
<1>2. CASE UNCHANGED list
  BY <1>1, <1>2 DEF Shaped, AtGates
<1>3. ASSUME NEW l \in Lists, Moved(l)
      PROVE  AtGates' /\ DOMAIN list' = Lists
             /\ \A m \in Lists : {"pc", "waits"} \subseteq DOMAIN list'[m]
  BY <1>1, <1>3 DEF Shaped, AtGates, Moved
<1>4. ASSUME NEW l \in Lists, ListStart(l) \/ Worker(l) \/ GateFails(l) \/ McpTimeout(l)
      PROVE  UNCHANGED list \/ Moved(l)
  BY <1>1, <1>4, WalkingSteps, HoldingSteps DEF Worker, McpTimeout, Walks
<1>5. CASE EditNext \/ Lapse \/ Unlock \/ UNCHANGED vars \/ Settled
  BY <1>2, <1>5 DEF EditNext, EditLoad, EditTruncate, EditWrite, EditorDies, Lapse, Unlock,
     vars, Settled
<1>6. CASE ChildNext \/ ExecNext
  BY <1>2, <1>6 DEF ChildNext, ChildGate, ChildOpens, ChildRefused, ChildEnds, Deadline,
     ExecNext, ExecGate, ExecAdmitted, ExecSpawn, ExecEnds
<1>7. CASE ApiNext
  BY <1>2, <1>7 DEF ApiNext, Send, Serve, Expire, ApiEdited, ApiGate, ApiAsked, ApiCollect
<1> QED
  BY <1>2, <1>3, <1>4, <1>5, <1>6, <1>7 DEF Next, ListNext

\* The tables keep their entries.
LEMMA ShapedKept ==
  ASSUME IInv, [Next]_vars
  PROVE  Shaped'
<1>1. PICK c \in Callers : Acts(c)
  BY StepActs
<1>2. DOMAIN child' = Callers /\ DOMAIN tracker' = Lists
  BY <1>1 DEF Acts
<1>3. /\ DOMAIN edit' = Writers
      /\ \A e \in Writers : {"pc", "op", "alias", "new"} \subseteq DOMAIN edit'[e]
  <2>1. /\ DOMAIN edit = Writers
        /\ \A e \in Writers : {"pc", "op", "alias", "new"} \subseteq DOMAIN edit[e]
    BY DEF IInv, Shaped
  <2>2. CASE Aside
    BY <2>1, <2>2 DEF Aside, registryVars
  <2>3. ASSUME NEW e \in Writers, Writes(e)
        PROVE  /\ DOMAIN edit' = Writers
               /\ \A d \in Writers : {"pc", "op", "alias", "new"} \subseteq DOMAIN edit'[d]
    BY <2>1, <2>3, LoadGood, WriterSteps DEF Writes
  <2>4. CASE Answers
    BY <2>1, <2>4, AnswersEdit
  <2> QED
    BY <2>2, <2>3, <2>4, RegistrySteps
<1> QED
  BY <1>2, <1>3, ListsStep, AskingKept DEF Shaped, Callers, Writers

\* It holds when everything begins.
LEMMA InitInv == Init => IInv
<1> SUFFICES ASSUME Init PROVE IInv
  OBVIOUS
<1>1. case \in Cases /\ Shaped /\ AtGates /\ Asking /\ OwnKilled
  BY DEF Init, Shaped, AtGates, Asking, OwnKilled, Idle, Free, NoEdit, Start, Writers
<1>2. AllTidy
  BY CallersAssumption DEF Init, AllTidy, Tidy, Callers, Idle, Free, Held
<1>3. FileGood
  <2>1. /\ case.registry \in Seq(ToSet(case.registry)) /\ IsInjective(case.registry)
        /\ Len(case.registry) <= MaxBastions
    BY <1>1, CasesAssumption
  <2>2. case.registry \in Seq(Aliases)
    BY <2>1, SeqMonotonic DEF Aliases
  <2>3. Undisabled \subseteq ToSet(case.registry)
    BY DEF Undisabled
  <2> QED
    BY <2>1, <2>2, <2>3 DEF Init, FileGood, Fits
<1>4. ASSUME NEW e \in Writers PROVE EditGood(e)
  <2>1. CASE edit[e] = NoEdit
    BY <2>1 DEF EditGood, NoEdit
  <2>2. CASE edit[e] # NoEdit
    <3>1. /\ e \in Editors /\ case.edits[e] # None
          /\ edit[e] = Start(case.edits[e].op, case.edits[e].alias)
      BY <2>2 DEF Init
    <3>2. /\ edit[e].pc = "load" /\ edit[e].op = case.edits[e].op
          /\ edit[e].alias = case.edits[e].alias
      BY <3>1 DEF Start, NoEdit
    <3>3. case.edits[e].op \in {"enable", "disable"}
      BY <1>1, <3>1, CasesAssumption
    <3> QED
      BY <3>1, <3>2, <3>3 DEF EditGood, Disabled
  <2> QED
    BY <2>1, <2>2
<1> QED
  BY <1>1, <1>2, <1>3, <1>4 DEF IInv, EditsGood

\* Every step keeps the inductive invariant.
LEMMA NextInv == IInv /\ [Next]_vars => IInv'
<1> SUFFICES ASSUME IInv, [Next]_vars PROVE IInv'
  OBVIOUS
<1>1. case' \in Cases
  BY CaseKept DEF IInv
<1>2. AllTidy' /\ OwnKilled'
  BY StepActs, TidyKept
<1> QED
  BY <1>1, <1>2, ShapedKept, ListsStep, AskingKept, RegistryStep DEF IInv

THEOREM Invariance == Spec => []IInv
  BY InitInv, NextInv, PTL DEF Spec

-----------------------------------------------------------------------------
(* What follows *)

\* Calls that share a process end only their own children, and whoever has
\* stopped waiting has left none behind.
THEOREM NoneLeft == Spec => []ChildrenOwn
<1>1. IInv => ChildrenOwn
  BY DEF IInv, ChildrenOwn, AllTidy, Tidy, OwnKilled, Held, Callers
<1> QED
  BY Invariance, <1>1, PTL

\* However the writers of bastions.json overlap and wherever they die, a
\* readable registry has no bastion twice, no more than the limit, and every
\* bastion that nobody disables.
THEOREM NothingLost == Spec => []RegistryKept
<1>1. IInv => RegistryKept
  BY DEF IInv, RegistryKept, FileGood, Fits, Undisabled
<1> QED
  BY Invariance, <1>1, PTL

-----------------------------------------------------------------------------
(* The lists' entries: a second invariant, on top of the first *)

\* An entry of the vault's own records: made of record i and, if it was probed,
\* with that record's result.
Local(l, i, it) ==
  \E kind \in {"bastion", "local"} :
    /\ it = Item(<<>>, case.records[i], kind, it.status)
    /\ it.status # None =>
         /\ Opts(l).probe /\ i \in Work
         /\ \E up \in BOOLEAN : it.status = Status(Record(<<>>, case.records[i]), up, "local")
Results == {[idx |-> i, of |-> Record(<<>>, case.records[i]), up |-> up] :
              i \in Work, up \in BOOLEAN}

\* The entries gathered so far: the vault's own records in their places, then,
\* once each, what the bastions that answered list.
Own == DOMAIN case.records
Far(items) == DOMAIN items \ Own
Built(l, items, got) ==
  /\ items \in Seq(ToSet(items))
  /\ \A i \in Own : i \in DOMAIN items /\ Local(l, i, items[i])
  /\ \A k \in Far(items) :
       \E b \in got : \E i \in DOMAIN case.remote[b] : items[k] = Adopted(b)[i]
  /\ \A b \in got : \A i \in DOMAIN case.remote[b] :
       \E k \in Far(items) : items[k] = Adopted(b)[i]
  /\ \A j, k \in Far(items) : items[j].from = items[k].from => j = k

\* The bastions still to ask: none twice, and none that has answered.
Queue(todo, got) ==
  /\ todo \in Seq(Aliases) /\ todo # <<>>
  /\ IsInjective(todo)
  /\ ToSet(todo) \cap got = {}

\* Where a list has entries, asks a bastion, has begun nothing, has asked nobody.
Gathers == {"probe", "gate2", "registry", "gate3", "spawn", "register", "await", "finish"}
Asks == {"gate3", "spawn", "register", "await"}
Begins == {"off", "gate1", "build"}
Alone == Begins \cup {"probe", "gate2", "registry"}
Fields == {"pc", "waits", "items", "begun", "rx", "todo", "got"}

\* The worker of list call l.
Good(l, w) ==
  /\ Fields \subseteq DOMAIN w
  /\ w.got \subseteq Aliases
  /\ w.pc \in Alone => w.got = {}
  /\ w.pc \in Begins => w.begun = {} /\ w.rx = <<>>
  /\ w.pc = "probe" => /\ Opts(l).probe
                       /\ w.begun \subseteq Work
                       /\ w.rx \in Seq(Results)
                       /\ \A i \in DOMAIN w.items : w.items[i].status = None
  /\ w.pc \in Gathers => Built(l, w.items, w.got)
  /\ w.pc \in Asks => Queue(w.todo, w.got)

\* What call l has answered, when the worker has the bastions w.got.
Told(l, a) ==
  /\ {"kind", "items"} \subseteq DOMAIN a
  /\ a.kind = "items" => list[l].pc = "over" /\ ListTrue(l, a.items)

LInv ==
  /\ DOMAIN answer = Lists
  /\ \A l \in Lists : Good(l, list[l]) /\ Told(l, answer[l])

-----------------------------------------------------------------------------
(* Entries *)

\* What is assumed of the vaults, for the case explored.
LEMMA Vaults ==
  ASSUME case \in Cases
  PROVE  /\ IsVault(case.records)
         /\ Own = 1..Len(case.records) /\ Len(case.records) \in Nat
         /\ \A b \in Aliases :
              /\ IsVault(case.remote[b])
              /\ DOMAIN case.remote[b] = 1..Len(case.remote[b]) /\ Len(case.remote[b]) \in Nat
              /\ \A i \in DOMAIN case.remote[b] : case.remote[b][i].up \in BOOLEAN \cup {None}
<1>1. /\ IsVault(case.records)
      /\ \A b \in Aliases :
           /\ IsVault(case.remote[b])
           /\ \A i \in DOMAIN case.remote[b] : case.remote[b][i].up \in BOOLEAN \cup {None}
  BY CasesAssumption DEF Aliases
<1>2. ASSUME NEW records, IsVault(records)
      PROVE  DOMAIN records = 1..Len(records) /\ Len(records) \in Nat
  BY <1>2, LenProperties DEF IsVault
<1> QED
  BY <1>1, <1>2 DEF Own

\* What every item made of a record says of it.
LEMMA ItemSays ==
  ASSUME NEW route, NEW rec, NEW kind, NEW status
  PROVE  LET it == Item(route, rec, kind, status)
         IN  /\ it.from = Record(route, rec)
             /\ it.from.route = route /\ it.from.profile = rec.profile /\ it.from.name = rec.name
             /\ it.addr = Append(route, rec.name) /\ it.route = route
             /\ it.status = status
BY DEF Item, Record

\* Items tell the records they were made of apart.
LEMMA ItemsApart ==
  ASSUME NEW route1, NEW rec1, NEW route2, NEW rec2,
         Record(route1, rec1) = Record(route2, rec2)
  PROVE  route1 = route2 /\ rec1.profile = rec2.profile /\ rec1.name = rec2.name
<1> DEFINE one == Record(route1, rec1)
           two == Record(route2, rec2)
<1>1. /\ one.route = route1 /\ one.profile = rec1.profile /\ one.name = rec1.name
      /\ two.route = route2 /\ two.profile = rec2.profile /\ two.name = rec2.name
  BY DEF Record
<1> QED
  BY <1>1

\* What a bastion lists, as seen from here.
LEMMA AdoptedSays ==
  ASSUME case \in Cases, NEW b \in Aliases
  PROVE  /\ Adopted(b) \in Seq(ToSet(Adopted(b)))
         /\ Len(Adopted(b)) = Len(case.remote[b]) /\ Len(Adopted(b)) \in Nat
         /\ DOMAIN Adopted(b) = DOMAIN case.remote[b]
         /\ \A i \in DOMAIN case.remote[b] :
              LET it == Adopted(b)[i]
              IN  /\ it.from = Record(<<b>>, case.remote[b][i])
                  /\ it.addr = Append(<<b>>, case.remote[b][i].name) /\ it.route = <<b>>
                  /\ it.from.route = <<b>> /\ it.from.name = case.remote[b][i].name
                  /\ it.status # None =>
                       /\ case.remote[b][i].up \in BOOLEAN
                       /\ it.status = Status(it.from, case.remote[b][i].up, b)
         /\ \A i, j \in DOMAIN case.remote[b] :
              Adopted(b)[i].from = Adopted(b)[j].from => i = j
<1>1. /\ IsVault(case.remote[b])
      /\ DOMAIN case.remote[b] = 1..Len(case.remote[b]) /\ Len(case.remote[b]) \in Nat
      /\ \A i \in DOMAIN case.remote[b] : case.remote[b][i].up \in BOOLEAN \cup {None}
  BY Vaults
<1>2. DOMAIN Adopted(b) = 1..Len(case.remote[b])
  BY <1>1 DEF Adopted
<1>3. Adopted(b) \in Seq(ToSet(Adopted(b))) /\ Len(Adopted(b)) = Len(case.remote[b])
  <2> DEFINE s == Adopted(b)
             n == Len(case.remote[b])
  <2>1. s \in [1..n -> ToSet(s)] /\ n \in Nat
    BY <1>1, <1>2 DEF ToSet, Adopted
  <2> HIDE DEF s, n
  <2>2. s \in Seq(ToSet(s))
    BY <2>1, SeqDef
  <2>3. Len(s) = n
    BY <2>1, <2>2, LenProperties
  <2> QED
    BY <2>2, <2>3 DEF s, n
<1>4. ASSUME NEW i \in DOMAIN case.remote[b]
      PROVE  LET it == Adopted(b)[i]
             IN  /\ it.from = Record(<<b>>, case.remote[b][i])
                 /\ it.addr = Append(<<b>>, case.remote[b][i].name) /\ it.route = <<b>>
                 /\ it.from.route = <<b>> /\ it.from.name = case.remote[b][i].name
                 /\ it.status # None =>
                      /\ case.remote[b][i].up \in BOOLEAN
                      /\ it.status = Status(it.from, case.remote[b][i].up, b)
  <2> DEFINE rec == case.remote[b][i]
             status == IF rec.up = None THEN None ELSE Status(Record(<<b>>, rec), rec.up, b)
  <2>1. PICK kind : Adopted(b)[i] = Item(<<b>>, rec, kind, status)
    BY DEF Adopted
  <2>2. rec.up \in BOOLEAN \cup {None}
    BY <1>1
  <2>3. status # None => rec.up \in BOOLEAN /\ status = Status(Record(<<b>>, rec), rec.up, b)
    BY <2>2
  <2> HIDE DEF rec, status
  <2>4. LET it == Adopted(b)[i]
        IN  /\ it.from = Record(<<b>>, rec)
            /\ it.from.route = <<b>> /\ it.from.name = rec.name
            /\ it.addr = Append(<<b>>, rec.name) /\ it.route = <<b>>
            /\ it.status = status
    BY <2>1, ItemSays
  <2> QED
    BY <2>3, <2>4 DEF rec
<1>5. ASSUME NEW i \in DOMAIN case.remote[b], NEW j \in DOMAIN case.remote[b],
             Adopted(b)[i].from = Adopted(b)[j].from
      PROVE  i = j
  BY <1>1, <1>4, <1>5, ItemsApart DEF IsVault
<1> QED
  BY <1>1, <1>2, <1>3, <1>4, <1>5

\* The record an entry of the vault's own was made of.
LEMMA LocalFrom ==
  ASSUME NEW l, NEW i \in Own, NEW it, Local(l, i, it)
  PROVE  it.from = Record(<<>>, case.records[i])
<1>1. PICK kind \in {"bastion", "local"} : it = Item(<<>>, case.records[i], kind, it.status)
  BY DEF Local
<1> QED
  BY <1>1, ItemSays

\* What an entry of the vault's own says.
LEMMA LocalSays ==
  ASSUME NEW l, NEW i \in Own, NEW it, Local(l, i, it)
  PROVE  /\ it.from = Record(<<>>, case.records[i])
         /\ it.addr = Append(<<>>, case.records[i].name) /\ it.route = <<>>
         /\ it.from.route = <<>> /\ it.from.name = case.records[i].name
         /\ it.status # None =>
              /\ Opts(l).probe /\ i \in Work
              /\ it.status.of = it.from /\ it.status.source = "local"
              /\ it.status.up \in BOOLEAN
<1>1. PICK kind \in {"bastion", "local"} : it = Item(<<>>, case.records[i], kind, it.status)
  BY DEF Local
<1>2. /\ it.from = Record(<<>>, case.records[i])
      /\ it.from.route = <<>> /\ it.from.name = case.records[i].name
      /\ it.addr = Append(<<>>, case.records[i].name) /\ it.route = <<>>
  BY <1>1, ItemSays
<1>3. it.status # None =>
        /\ Opts(l).probe /\ i \in Work
        /\ \E up \in BOOLEAN : it.status = Status(Record(<<>>, case.records[i]), up, "local")
  BY DEF Local
<1>4. ASSUME NEW of, NEW up, NEW source
      PROVE  /\ Status(of, up, source).of = of /\ Status(of, up, source).up = up
             /\ Status(of, up, source).source = source
  BY DEF Status
<1> QED
  BY <1>2, <1>3, <1>4

\* build_local_items: an entry for each record, in its place.
LEMMA BuildBuilds ==
  ASSUME case \in Cases, NEW l
  PROVE  LET items == [i \in Own |-> LocalItem(case.records[i])]
         IN  Built(l, items, {}) /\ \A i \in DOMAIN items : items[i].status = None
<1> DEFINE items == [i \in Own |-> LocalItem(case.records[i])]
           n == Len(case.records)
<1>1. Own = 1..n /\ n \in Nat
  BY Vaults
<1>2. DOMAIN items = Own /\ Far(items) = {}
  BY DEF Far
<1>3. items \in Seq(ToSet(items))
  <2>1. items \in [1..n -> ToSet(items)]
    BY <1>1 DEF ToSet
  <2> HIDE DEF items, n
  <2> QED
    BY <1>1, <2>1, SeqDef
<1>4. ASSUME NEW i \in Own PROVE Local(l, i, items[i]) /\ items[i].status = None
  <2>1. PICK kind \in {"bastion", "local"} : items[i] = Item(<<>>, case.records[i], kind, None)
    BY DEF LocalItem
  <2>2. items[i].status = None
    BY <2>1, ItemSays
  <2> HIDE DEF items
  <2> QED
    BY <2>1, <2>2 DEF Local
<1> HIDE DEF items
<1>5. Built(l, items, {}) /\ \A i \in DOMAIN items : items[i].status = None
  BY <1>2, <1>3, <1>4 DEF Built
<1> QED
  BY <1>5 DEF items

\* The end of probe_items: whatever the order in which the results arrived,
\* each entry gets its own.
LEMMA JoinBuilds ==
  ASSUME case \in Cases, NEW l, NEW items, NEW rx \in Seq(Results),
         Built(l, items, {}), Opts(l).probe,
         \A i \in DOMAIN items : items[i].status = None,
         {r.idx : r \in ToSet(rx)} = Work
  PROVE  Built(l, Applied(items, rx, Work), {})
<1> DEFINE new == Applied(items, rx, Work)
           n == Len(items)
<1>1. DOMAIN items = Own /\ DOMAIN items = 1..n /\ n \in Nat
  <2>1. items \in Seq(ToSet(items)) /\ Own \subseteq DOMAIN items /\ Far(items) = {}
    BY DEF Built
  <2> QED
    BY <2>1, LenProperties DEF Far
<1>2. DOMAIN new = Own
  BY <1>1 DEF Applied
<1>3. new \in Seq(ToSet(new))
  <2>1. new \in [1..n -> ToSet(new)]
    BY <1>1, <1>2 DEF ToSet, Applied
  <2> HIDE DEF new, n
  <2> QED
    BY <1>1, <2>1, SeqDef
<1>4. ASSUME NEW i \in Own PROVE Local(l, i, new[i])
  <2>1. PICK kind \in {"bastion", "local"} : items[i] = Item(<<>>, case.records[i], kind, None)
    BY <1>1 DEF Built, Local
  <2>2. CASE i \notin Work
    <3>1. new[i] = items[i]
      BY <1>1, <2>2 DEF Applied
    <3> QED
      BY <3>1 DEF Built
  <2>3. CASE i \in Work
    <3> DEFINE r == CHOOSE r \in ToSet(rx) : r.idx = i
               status == Status(r.of, r.up, "local")
    <3>1. r \in ToSet(rx) /\ r.idx = i
      BY <2>3
    <3>2. r \in Results
      <4> HIDE DEF r
      <4>1. PICK k \in DOMAIN rx : r = rx[k]
        BY <3>1 DEF ToSet
      <4>2. k \in 1..Len(rx)
        BY LenProperties
      <4> QED
        BY <4>1, <4>2, ElementOfSeq
    <3>3. new[i] = [items[i] EXCEPT !.status = status]
      BY <1>1, <2>3 DEF Applied
    <3> HIDE DEF r, new
    <3>4. r.of = Record(<<>>, case.records[i]) /\ r.up \in BOOLEAN
      <4>1. PICK j \in Work, up \in BOOLEAN :
               r = [idx |-> j, of |-> Record(<<>>, case.records[j]), up |-> up]
        BY <3>2 DEF Results
      <4> QED
        BY <3>1, <4>1
    <3>5. new[i] = Item(<<>>, case.records[i], kind, status)
      BY <2>1, <3>3 DEF Item
    <3>6. new[i].status = status
      BY <3>5, ItemSays
    <3> QED
      BY <2>3, <3>4, <3>5, <3>6 DEF Local
  <2> QED
    BY <2>2, <2>3
<1> HIDE DEF new
<1>5. Far(new) = {}
  BY <1>2 DEF Far
<1>6. Built(l, new, {})
  BY <1>2, <1>3, <1>4, <1>5 DEF Built
<1> QED
  BY <1>6 DEF new

\* A bastion that answers: what it lists is added, once each.
LEMMA CollectBuilds ==
  ASSUME case \in Cases, NEW l, NEW items, NEW got \in SUBSET Aliases,
         NEW b \in Aliases, b \notin got, Built(l, items, got)
  PROVE  Built(l, items \o Adopted(b), got \cup {b})
<1> DEFINE adopted == Adopted(b)
           new == items \o adopted
           n == Len(items)
           m == Len(adopted)
           all == ToSet(items) \cup ToSet(adopted)
<1>1. /\ items \in Seq(all) /\ adopted \in Seq(all)
      /\ DOMAIN items = 1..n /\ n \in Nat
      /\ DOMAIN adopted = 1..m /\ m \in Nat
  <2>1. items \in Seq(ToSet(items)) /\ adopted \in Seq(ToSet(adopted))
    BY AdoptedSays DEF Built
  <2> HIDE DEF adopted
  <2> QED
    BY <2>1, SeqMonotonic, LenProperties
<1>2. /\ new \in Seq(all) /\ Len(new) = n + m
      /\ \A k \in 1..n + m : new[k] = IF k <= n THEN items[k] ELSE adopted[k - n]
  <2> HIDE DEF adopted, all
  <2> QED
    BY <1>1, ConcatProperties
<1>3. DOMAIN new = 1..n + m
  <2> HIDE DEF new, all
  <2> QED
    BY <1>2, LenProperties
<1>4. DOMAIN adopted = DOMAIN case.remote[b] /\ DOMAIN case.remote[b] = 1..m
  BY <1>1, AdoptedSays
<1> HIDE DEF new, all, adopted, n, m
<1>5. new \in Seq(ToSet(new))
  <2>1. new \in [1..n + m -> ToSet(new)]
    BY <1>2, <1>3, LenProperties DEF ToSet
  <2> QED
    BY <1>1, <2>1, SeqDef
<1>6. \A k \in DOMAIN items : k \in DOMAIN new /\ new[k] = items[k]
  BY <1>1, <1>2, <1>3
<1>7. Own \subseteq DOMAIN items
  BY DEF Built
<1>8. \A k \in Far(new) : \/ k \in Far(items)
                          \/ \E i \in 1..m : k = n + i /\ new[k] = adopted[i]
  <2>1. ASSUME NEW k \in DOMAIN new, k \notin DOMAIN items
        PROVE  \E i \in 1..m : k = n + i /\ new[k] = adopted[i]
    <3>1. k \in 1..n + m /\ ~(k <= n)
      BY <1>1, <1>3, <2>1
    <3>2. k - n \in 1..m /\ k = n + (k - n)
      BY <1>1, <3>1
    <3> QED
      BY <1>2, <3>1, <3>2
  <2> QED
    BY <2>1 DEF Far
<1>9. \A i \in 1..m : n + i \in Far(new) /\ new[n + i] = adopted[i]
  <2>1. ASSUME NEW i \in 1..m PROVE n + i \in DOMAIN new /\ new[n + i] = adopted[i]
                                    /\ n + i \notin DOMAIN items
    <3>1. n + i \in 1..n + m /\ ~(n + i <= n) /\ (n + i) - n = i
      BY <1>1
    <3> QED
      BY <1>1, <1>2, <1>3, <3>1
  <2> QED
    BY <1>7, <2>1 DEF Far
<1>10. \A k \in Far(items) : k \in Far(new)
  BY <1>6 DEF Far
<1>11. ASSUME NEW i \in Own PROVE i \in DOMAIN new /\ Local(l, i, new[i])
  BY <1>6, <1>7 DEF Built
<1>12. ASSUME NEW k \in Far(new)
       PROVE  \E c \in got \cup {b} : \E i \in DOMAIN case.remote[c] : new[k] = Adopted(c)[i]
  <2>1. CASE k \in Far(items)
    BY <1>6, <2>1 DEF Built, Far
  <2>2. CASE \E i \in 1..m : new[k] = adopted[i]
    BY <1>4, <2>2 DEF adopted
  <2> QED
    BY <1>8, <2>1, <2>2
<1>13. ASSUME NEW c \in got \cup {b}, NEW i \in DOMAIN case.remote[c]
       PROVE  \E k \in Far(new) : new[k] = Adopted(c)[i]
  <2>1. CASE c = b
    BY <1>4, <1>9, <2>1 DEF adopted
  <2>2. CASE c # b
    <3>1. PICK k \in Far(items) : items[k] = Adopted(c)[i]
      BY <2>2 DEF Built
    <3> QED
      BY <1>6, <1>10, <3>1 DEF Far
  <2> QED
    BY <2>1, <2>2
<1>14. ASSUME NEW j \in Far(items), NEW i \in 1..m
       PROVE  items[j].from # adopted[i].from
  <2>1. PICK c \in got : \E h \in DOMAIN case.remote[c] : items[j] = Adopted(c)[h]
    BY DEF Built
  <2>2. c \in Aliases /\ c # b
    OBVIOUS
  <2>3. items[j].from.route = <<c>>
    <3>1. \A h \in DOMAIN case.remote[c] : Adopted(c)[h].from.route = <<c>>
      BY <2>2, AdoptedSays
    <3> QED
      BY <2>1, <3>1
  <2>4. adopted[i].from.route = <<b>>
    BY <1>4, AdoptedSays DEF adopted
  <2> QED
    BY <2>2, <2>3, <2>4
<1>15. ASSUME NEW j \in Far(new), NEW k \in Far(new), new[j].from = new[k].from
       PROVE  j = k
  <2>1. CASE j \in Far(items) /\ k \in Far(items)
    BY <1>6, <1>15, <2>1 DEF Built, Far
  <2>2. CASE j \in Far(items) /\ k \notin Far(items)
    BY <1>6, <1>8, <1>14, <1>15, <2>2 DEF Far
  <2>3. CASE j \notin Far(items) /\ k \in Far(items)
    BY <1>6, <1>8, <1>14, <1>15, <2>3 DEF Far
  <2>4. CASE j \notin Far(items) /\ k \notin Far(items)
    <3>1. PICK i \in 1..m : j = n + i /\ new[j] = adopted[i]
      BY <1>8, <2>4
    <3>2. PICK h \in 1..m : k = n + h /\ new[k] = adopted[h]
      BY <1>8, <2>4
    <3>3. adopted[i].from = adopted[h].from
      BY <1>15, <3>1, <3>2
    <3>4. i = h
      BY <1>4, <3>3, AdoptedSays DEF adopted
    <3> QED
      BY <3>1, <3>2, <3>4
  <2> QED
    BY <2>1, <2>2, <2>3, <2>4
<1>16. Built(l, new, got \cup {b})
  BY <1>5, <1>11, <1>12, <1>13, <1>15 DEF Built
<1> QED
  BY <1>16 DEF new, adopted

-----------------------------------------------------------------------------
(* The bastions to ask *)

\* The next bastion has not answered; the rest still have to.
LEMMA QueueNext ==
  ASSUME NEW todo, NEW got, Queue(todo, got)
  PROVE  /\ Head(todo) \in Aliases /\ Head(todo) \notin got
         /\ Tail(todo) # <<>> =>
              Queue(Tail(todo), got) /\ Queue(Tail(todo), got \cup {Head(todo)})
<1> DEFINE rest == Tail(todo)
           n == Len(todo)
<1>1. todo \in Seq(Aliases) /\ todo # <<>> /\ IsInjective(todo) /\ ToSet(todo) \cap got = {}
  BY DEF Queue
<1>2. /\ DOMAIN todo = 1..n /\ n \in Nat /\ n # 0
      /\ rest \in Seq(Aliases) /\ Len(rest) = n - 1 /\ Head(todo) \in Aliases
      /\ \A i \in 1..n - 1 : rest[i] = todo[i + 1]
  BY <1>1, LenProperties, EmptySeq, HeadTailProperties
<1>3. DOMAIN rest = 1..n - 1 /\ Head(todo) = todo[1]
  <2>1. DOMAIN rest = 1..n - 1
    BY <1>2, LenProperties
  <2>2. Head(todo) = todo[1]
    BY <1>1
  <2> QED
    BY <2>1, <2>2
<1> HIDE DEF rest, n
<1>4. \A i \in DOMAIN rest : i + 1 \in DOMAIN todo /\ rest[i] = todo[i + 1] /\ i + 1 # 1
  BY <1>2, <1>3
<1>5. 1 \in DOMAIN todo
  BY <1>2
<1>6. IsInjective(rest)
  <2>1. ASSUME NEW i \in DOMAIN rest, NEW j \in DOMAIN rest, rest[i] = rest[j] PROVE i = j
    <3>1. i + 1 = j + 1
      BY <1>1, <1>4, <2>1 DEF IsInjective
    <3> QED
      BY <1>2, <1>3, <3>1
  <2> QED
    BY <2>1 DEF IsInjective
<1>7. Head(todo) \notin ToSet(rest)
  BY <1>1, <1>3, <1>4, <1>5 DEF IsInjective, ToSet
<1>8. ToSet(rest) \subseteq ToSet(todo) /\ Head(todo) \in ToSet(todo)
  BY <1>3, <1>4, <1>5 DEF ToSet
<1>9. rest # <<>> => Queue(rest, got) /\ Queue(rest, got \cup {Head(todo)})
  BY <1>1, <1>2, <1>6, <1>7, <1>8 DEF Queue
<1> QED
  BY <1>1, <1>2, <1>8, <1>9 DEF rest

\* A readable registry, as far as the limit, is one to start with.
LEMMA QueueStart ==
  ASSUME FileGood, Readable, NEW todo,
         todo = SubSeq(file, 1, IF Len(file) < MaxBastions THEN Len(file) ELSE MaxBastions),
         todo # <<>>
  PROVE  Queue(todo, {})
<1> DEFINE n == IF Len(file) < MaxBastions THEN Len(file) ELSE MaxBastions
<1>1. /\ file \in Seq(Aliases) /\ IsInjective(file)
      /\ DOMAIN file = 1..Len(file) /\ Len(file) \in Nat /\ MaxBastions \in Nat
  BY LenProperties, ListAssumption DEF FileGood, Fits
<1>2. n \in Nat /\ n <= Len(file)
  BY <1>1
<1>3. \A i \in 1..n : i \in DOMAIN file /\ file[i] \in Aliases
  BY <1>1, <1>2, ElementOfSeq
<1> HIDE DEF n
<1>4. todo = SubSeq(file, 1, n)
  BY DEF n
<1>5. /\ todo \in Seq(Aliases) /\ \A i \in 1..n : todo[i] = file[i]
      /\ Len(todo) = n
  <2>1. 1 \in Int /\ n \in Int
    BY <1>2
  <2>2. /\ SubSeq(file, 1, n) \in Seq(Aliases)
        /\ Len(SubSeq(file, 1, n)) = IF 1 <= n THEN n - 1 + 1 ELSE 0
        /\ \A i \in 1..n - 1 + 1 : SubSeq(file, 1, n)[i] = file[1 + i - 1]
    BY ONLY <1>3, <2>1, SubSeqProperties
  <2>3. (IF 1 <= n THEN n - 1 + 1 ELSE 0) = n /\ n - 1 + 1 = n
        /\ \A i \in 1..n : 1 + i - 1 = i
    BY <1>2
  <2> QED
    BY <1>4, <2>2, <2>3
<1>6. DOMAIN todo = 1..n
  BY <1>5, LenProperties
<1> QED
  BY <1>1, <1>3, <1>5, <1>6 DEF Queue, IsInjective

-----------------------------------------------------------------------------
(* The answer *)

\* Where an entry stands: among the vault's own records, or among those that a
\* bastion which answered lists.
LEMMA EntryFrom ==
  ASSUME case \in Cases, NEW l, NEW items, NEW got \in SUBSET Aliases,
         Built(l, items, got), NEW k \in DOMAIN items
  PROVE  \/ k \in Own /\ Local(l, k, items[k]) /\ items[k].from.route = <<>>
         \/ /\ k \in Far(items)
            /\ \E b \in got : \E i \in DOMAIN case.remote[b] :
                 /\ b \in Aliases /\ items[k] = Adopted(b)[i] /\ items[k].from.route = <<b>>
<1>1. CASE k \in Own
  <2>1. Local(l, k, items[k])
    BY <1>1 DEF Built
  <2> QED
    BY <1>1, <2>1, LocalSays
<1>2. CASE k \notin Own
  <2>1. k \in Far(items)
    BY <1>2 DEF Far
  <2>2. PICK b \in got : \E i \in DOMAIN case.remote[b] : items[k] = Adopted(b)[i]
    BY <2>1 DEF Built
  <2>3. PICK i \in DOMAIN case.remote[b] : items[k] = Adopted(b)[i]
    BY <2>2
  <2>4. b \in Aliases
    OBVIOUS
  <2>5. Adopted(b)[i].from.route = <<b>>
    BY <2>4, AdoptedSays
  <2> QED
    BY <2>1, <2>3, <2>4, <2>5
<1> QED
  BY <1>1, <1>2

\* Every entry kept tells the truth.
LEMMA KeptTruthful ==
  ASSUME case \in Cases, NEW l, NEW items, NEW got \in SUBSET Aliases,
         Built(l, items, got), NEW k \in DOMAIN Kept(items, Opts(l).only)
  PROVE  k \in DOMAIN items /\ Kept(items, Opts(l).only)[k] = items[k] /\ Truthful(l, items[k])
<1>1. /\ k \in DOMAIN items /\ Kept(items, Opts(l).only)[k] = items[k]
      /\ Opts(l).only /\ items[k].status # None => items[k].status.up
  BY DEF Kept
<1>2. CASE k \in Own /\ Local(l, k, items[k])
  <2>1. LET it == items[k]
        IN  /\ it.addr = Append(<<>>, case.records[k].name) /\ it.route = <<>>
            /\ it.from.route = <<>> /\ it.from.name = case.records[k].name
            /\ it.status # None => it.status.of = it.from /\ it.status.source = "local"
    BY <1>2, LocalSays
  <2>2. Truthful(l, items[k])
    BY <1>1, <2>1 DEF Truthful
  <2> QED
    BY <1>1, <2>2
<1>3. CASE \E b \in got : \E i \in DOMAIN case.remote[b] :
             b \in Aliases /\ items[k] = Adopted(b)[i]
  <2>1. PICK b \in got : \E i \in DOMAIN case.remote[b] :
               b \in Aliases /\ items[k] = Adopted(b)[i]
    BY <1>3
  <2>2. PICK i \in DOMAIN case.remote[b] : b \in Aliases /\ items[k] = Adopted(b)[i]
    BY <2>1
  <2>3. LET it == Adopted(b)[i]
        IN  /\ it.from = Record(<<b>>, case.remote[b][i])
            /\ it.addr = Append(<<b>>, case.remote[b][i].name) /\ it.route = <<b>>
            /\ it.from.route = <<b>> /\ it.from.name = case.remote[b][i].name
            /\ it.status # None =>
                 it.status = Status(it.from, case.remote[b][i].up, b)
    BY <2>2, AdoptedSays
  <2>4. <<b>> # <<>> /\ <<b>>[1] = b
    OBVIOUS
  <2>5. ASSUME NEW of, NEW up
        PROVE  Status(of, up, b).of = of /\ Status(of, up, b).source = b
    BY DEF Status
  <2>6. /\ items[k].addr = Append(items[k].from.route, items[k].from.name)
        /\ items[k].route = items[k].from.route /\ items[k].route = <<b>>
    BY <2>2, <2>3
  <2>7. items[k].status # None =>
          items[k].status.of = items[k].from /\ items[k].status.source = b
    BY <2>2, <2>3, <2>5
  <2>8. b = IF items[k].route = <<>> THEN "local" ELSE items[k].route[1]
    BY <2>4, <2>6
  <2>9. Truthful(l, items[k])
    BY <1>1, <2>6, <2>7, <2>8 DEF Truthful
  <2> QED
    BY <1>1, <2>9
<1> QED
  BY <1>1, <1>2, <1>3, EntryFrom

\* No record is there twice.
LEMMA BuiltOnce ==
  ASSUME case \in Cases, NEW l, NEW items, NEW got \in SUBSET Aliases,
         Built(l, items, got), NEW j \in DOMAIN items, NEW k \in DOMAIN items,
         items[j].from = items[k].from
  PROVE  j = k
<1>1. CASE j \in Own /\ k \in Own
  <2>1. Local(l, j, items[j]) /\ Local(l, k, items[k])
    BY <1>1 DEF Built
  <2>2. Record(<<>>, case.records[j]) = Record(<<>>, case.records[k])
    BY <1>1, <2>1, LocalFrom
  <2>3. case.records[j].profile = case.records[k].profile
        /\ case.records[j].name = case.records[k].name
    BY <2>2, ItemsApart
  <2>4. IsVault(case.records)
    BY Vaults
  <2> QED
    BY <1>1, <2>3, <2>4 DEF IsVault, Own
<1>2. CASE j \in Far(items) /\ k \in Far(items)
  BY <1>2 DEF Built
<1>3. \A i \in DOMAIN items : \/ i \in Own /\ items[i].from.route = <<>>
                              \/ i \in Far(items) /\ \E b : items[i].from.route = <<b>>
  BY EntryFrom
<1>4. \A b : <<b>> # <<>>
  OBVIOUS
<1> QED
  BY <1>1, <1>2, <1>3, <1>4

\* The entry of a vault's own record, and the one of a bastion's.
LEMMA BuiltHas ==
  ASSUME case \in Cases, NEW l, NEW items, NEW got \in SUBSET Aliases, Built(l, items, got)
  PROVE  /\ \A i \in Own : i \in DOMAIN items /\ items[i].from = Record(<<>>, case.records[i])
         /\ \A b \in got : \A i \in DOMAIN case.remote[b] :
              \E k \in DOMAIN items : /\ items[k] = Adopted(b)[i]
                                      /\ items[k].from = Record(<<b>>, case.remote[b][i])
<1>1. ASSUME NEW i \in Own
      PROVE  i \in DOMAIN items /\ items[i].from = Record(<<>>, case.records[i])
  <2>1. i \in DOMAIN items /\ Local(l, i, items[i])
    BY DEF Built
  <2> QED
    BY <2>1, LocalFrom
<1>2. ASSUME NEW b \in got, NEW i \in DOMAIN case.remote[b]
      PROVE  \E k \in DOMAIN items : /\ items[k] = Adopted(b)[i]
                                     /\ items[k].from = Record(<<b>>, case.remote[b][i])
  <2>1. PICK k \in Far(items) : items[k] = Adopted(b)[i]
    BY DEF Built
  <2>2. b \in Aliases
    OBVIOUS
  <2>3. Adopted(b)[i].from = Record(<<b>>, case.remote[b][i])
    BY <2>2, AdoptedSays
  <2> QED
    BY <2>1, <2>3 DEF Far
<1> QED
  BY <1>1, <1>2

\* Every record of an entry kept is one of the vault's, or of a bastion's that
\* answered.
LEMMA BuiltExpected ==
  ASSUME case \in Cases, NEW l, NEW items, list[l].got \in SUBSET Aliases,
         Built(l, items, list[l].got), NEW k \in DOMAIN items
  PROVE  items[k].from \in Expected(l)
<1>1. CASE k \in Own /\ Local(l, k, items[k])
  <2>1. items[k].from = Record(<<>>, case.records[k])
    BY <1>1, LocalFrom
  <2>2. items[k].from \in LocalRecords
    BY <1>1, <2>1 DEF LocalRecords, Own
  <2> QED
    BY <2>2 DEF Expected
<1>2. CASE \E b \in list[l].got : \E i \in DOMAIN case.remote[b] :
             b \in Aliases /\ items[k] = Adopted(b)[i]
  <2>1. PICK b \in list[l].got : \E i \in DOMAIN case.remote[b] :
               b \in Aliases /\ items[k] = Adopted(b)[i]
    BY <1>2
  <2>2. PICK i \in DOMAIN case.remote[b] : b \in Aliases /\ items[k] = Adopted(b)[i]
    BY <2>1
  <2>3. Adopted(b)[i].from = Record(<<b>>, case.remote[b][i])
    BY <2>2, AdoptedSays
  <2>4. items[k].from \in FarRecords(b)
    BY <2>2, <2>3 DEF FarRecords
  <2> QED
    BY <2>4 DEF Expected
<1> QED
  BY <1>1, <1>2, EntryFrom

\* What nothing was found unreachable of is kept.
LEMMA SparedKept ==
  ASSUME case \in Cases, NEW l, NEW items, list[l].got \in SUBSET Aliases,
         Built(l, items, list[l].got), NEW x \in Spared(l)
  PROVE  \E k \in DOMAIN Kept(items, Opts(l).only) : items[k].from = x
<1>1. \A k \in DOMAIN items :
        (items[k].status = None \/ items[k].status.up) => k \in DOMAIN Kept(items, Opts(l).only)
  BY DEF Kept
<1>2. ASSUME NEW i \in Own, ~(Opts(l).probe /\ i \in Work), x = Record(<<>>, case.records[i])
      PROVE  \E k \in DOMAIN Kept(items, Opts(l).only) : items[k].from = x
  <2>1. Local(l, i, items[i]) /\ i \in DOMAIN items
    BY DEF Built
  <2> QED
    BY <1>1, <1>2, <2>1, LocalSays
<1>3. ASSUME NEW b \in list[l].got, NEW i \in DOMAIN case.remote[b],
             case.remote[b][i].up # FALSE, x = Record(<<b>>, case.remote[b][i])
      PROVE  \E k \in DOMAIN Kept(items, Opts(l).only) : items[k].from = x
  <2>1. PICK k \in DOMAIN items : /\ items[k] = Adopted(b)[i]
                                  /\ items[k].from = Record(<<b>>, case.remote[b][i])
    BY BuiltHas
  <2>2. b \in Aliases
    OBVIOUS
  <2>3. items[k].status # None => /\ case.remote[b][i].up \in BOOLEAN
                                  /\ items[k].status =
                                       Status(items[k].from, case.remote[b][i].up, b)
    BY <2>1, <2>2, AdoptedSays
  <2>4. ASSUME NEW of, NEW up PROVE Status(of, up, b).up = up
    BY DEF Status
  <2>5. items[k].status # None => items[k].status.up
    BY <1>3, <2>3, <2>4
  <2> QED
    BY <1>1, <1>3, <2>1, <2>5
<1>4. \/ \E i \in Own : ~(Opts(l).probe /\ i \in Work) /\ x = Record(<<>>, case.records[i])
      \/ \E b \in list[l].got : \E i \in DOMAIN case.remote[b] :
           case.remote[b][i].up # FALSE /\ x = Record(<<b>>, case.remote[b][i])
  BY DEF Spared, Own
<1> QED
  BY <1>2, <1>3, <1>4

\* What a list that has gathered its entries answers is true.
LEMMA FinishTells ==
  ASSUME case \in Cases, NEW l, NEW items, list[l].got \in SUBSET Aliases,
         Built(l, items, list[l].got)
  PROVE  ListTrue(l, Kept(items, Opts(l).only))
<1> DEFINE kept == Kept(items, Opts(l).only)
           named == {kept[k].from : k \in DOMAIN kept}
<1>1. \A k \in DOMAIN kept : k \in DOMAIN items /\ kept[k] = items[k] /\ Truthful(l, items[k])
  BY KeptTruthful
<1>2. ~Opts(l).only => DOMAIN kept = DOMAIN items
  BY DEF Kept
<1>3. Spared(l) \subseteq {items[k].from : k \in DOMAIN kept}
  <2>1. ASSUME NEW x \in Spared(l) PROVE \E k \in DOMAIN kept : items[k].from = x
    BY SparedKept
  <2> QED
    BY <2>1
<1> HIDE DEF kept
<1>4. \A j, k \in DOMAIN kept : kept[j].from = kept[k].from => j = k
  BY <1>1, BuiltOnce
<1>5. named \subseteq Expected(l)
  BY <1>1, BuiltExpected
<1>6. Spared(l) \subseteq named
  BY <1>1, <1>3
<1>7. ASSUME ~Opts(l).only PROVE Expected(l) \subseteq named
  <2>1. ASSUME NEW x \in LocalRecords PROVE x \in named
    <3>1. PICK i \in Own : x = Record(<<>>, case.records[i])
      BY DEF LocalRecords, Own
    <3>2. i \in DOMAIN items /\ items[i].from = x
      BY <3>1, BuiltHas
    <3> QED
      BY <1>1, <1>2, <1>7, <3>2
  <2>2. ASSUME NEW b \in list[l].got, NEW x \in FarRecords(b) PROVE x \in named
    <3>1. PICK i \in DOMAIN case.remote[b] : x = Record(<<b>>, case.remote[b][i])
      BY DEF FarRecords
    <3>2. PICK k \in DOMAIN items : items[k].from = x
      BY <3>1, BuiltHas
    <3> QED
      BY <1>1, <1>2, <1>7, <3>2
  <2> QED
    BY <2>1, <2>2 DEF Expected
<1>8. ListTrue(l, kept)
  BY <1>1, <1>4, <1>5, <1>6, <1>7 DEF ListTrue
<1> QED
  BY <1>8 DEF kept

-----------------------------------------------------------------------------
(* What a step does to a list's worker *)

\* A step that moves the worker on and touches nothing else of it.
LEMMA Strolls ==
  ASSUME NEW l, NEW w, NEW v, Good(l, w), Fields \subseteq DOMAIN v,
         v.items = w.items, v.begun = w.begun, v.rx = w.rx, v.todo = w.todo, v.got = w.got,
         v.pc # "probe",
         v.pc \in Alone => w.pc \in Alone, v.pc \in Begins => w.pc \in Begins,
         v.pc \in Gathers => w.pc \in Gathers, v.pc \in Asks => w.pc \in Asks
  PROVE  Good(l, v)
BY DEF Good

\* A worker that stops has nothing but the bastions that answered.
LEMMA Stops ==
  ASSUME NEW l \in Lists, DOMAIN list = Lists, DOMAIN answer = Lists, Good(l, list[l]),
         Told(l, answer[l]), list[l].pc # "over", NEW kind, NEW items, Over(l, kind, items)
  PROVE  /\ Good(l, list'[l])
         /\ list'[l].pc = "over" /\ list'[l].got = list[l].got
         /\ \A m \in Lists \ {l} : answer'[m] = answer[m]
         /\ DOMAIN answer' = Lists
         /\ {"kind", "items"} \subseteq DOMAIN answer'[l]
         /\ answer'[l].kind = "items" => kind = "items" /\ answer'[l].items = items
<1> DEFINE stopped == [Idle EXCEPT !.pc = "over", !.got = list[l].got]
<1>1. list' = [list EXCEPT ![l] = stopped]
  BY DEF Over
<1>2. stopped.pc = "over" /\ stopped.got = list[l].got /\ Fields \subseteq DOMAIN stopped
  BY DEF Idle, Fields
<1> HIDE DEF stopped
<1>3. list'[l] = stopped
  BY <1>1
<1>4. Good(l, stopped)
  BY <1>2 DEF Good, Alone, Begins, Gathers, Asks
<1>5. {"kind", "items"} \subseteq DOMAIN answer[l] /\ answer[l].kind # "items"
  BY DEF Told
<1>6. \/ answer' = answer
      \/ answer' = [answer EXCEPT ![l] = [kind |-> kind, items |-> items]]
  BY DEF Over
<1>7. /\ \A m \in Lists \ {l} : answer'[m] = answer[m]
      /\ DOMAIN answer' = Lists
      /\ {"kind", "items"} \subseteq DOMAIN answer'[l]
      /\ answer'[l].kind = "items" => kind = "items" /\ answer'[l].items = items
  BY <1>5, <1>6
<1> QED
  BY <1>2, <1>3, <1>4, <1>7

\* The worker moves from gate to gate, and from its spawn to its wait.
LEMMA MovesGood ==
  ASSUME DOMAIN list = Lists, NEW l \in Lists, Good(l, list[l]),
         \/ ListStart(l) \/ Gate(l) \/ (GateOpens(l) /\ list[l].pc \in Gates)
         \/ Spawn(l) \/ Register(l)
  PROVE  Good(l, list'[l])
<1> DEFINE w == list[l]
           v == list'[l]
<1>1. Fields \subseteq DOMAIN w
  BY DEF Good
<1>2. \E pc, waits :
        /\ list' = [list EXCEPT ![l].pc = pc, ![l].waits = waits]
        /\ \/ w.pc = "off" /\ pc = "gate1"
           \/ w.pc \in Gates /\ pc = w.pc
           \/ w.pc = "gate1" /\ pc = "build"
           \/ w.pc = "gate2" /\ pc = "registry"
           \/ w.pc = "gate3" /\ pc = "spawn"
           \/ w.pc = "spawn" /\ pc = "register"
           \/ w.pc = "register" /\ pc = "await"
  <2> DEFINE past == Past[w.pc]
  <2>1. w.pc \in Gates => \/ w.pc = "gate1" /\ past = "build"
                          \/ w.pc = "gate2" /\ past = "registry"
                          \/ w.pc = "gate3" /\ past = "spawn"
    BY DEF Gates, Past
  <2>2. At(l, past) => list' = [list EXCEPT ![l].pc = past, ![l].waits = FALSE]
    BY DEF At
  <2> HIDE DEF past
  <2>3. CASE ListStart(l)
    BY <2>3 DEF ListStart, At
  <2>4. CASE Gate(l)
    <3>1. CASE list' = [list EXCEPT ![l].waits = TRUE]
      <4>1. list' = [list EXCEPT ![l].pc = w.pc, ![l].waits = TRUE] /\ w.pc \in Gates
        BY <1>1, <2>4, <3>1 DEF Gate, Fields
      <4> QED
        BY <4>1
    <3>2. CASE At(l, Past[list[l].pc])
      BY <2>4, <2>1, <2>2, <3>2 DEF Gate, past
    <3> QED
      BY <2>4, <3>1, <3>2 DEF Gate
  <2>5. CASE GateOpens(l) /\ list[l].pc \in Gates
    BY <2>5, <2>1, <2>2 DEF GateOpens, past
  <2>6. CASE Spawn(l)
    BY <2>6 DEF Spawn, At
  <2>7. CASE Register(l)
    BY <2>7 DEF Register, At
  <2> QED
    BY <2>3, <2>4, <2>5, <2>6, <2>7
<1>3. /\ Fields \subseteq DOMAIN v
      /\ v.items = w.items /\ v.begun = w.begun /\ v.rx = w.rx
      /\ v.todo = w.todo /\ v.got = w.got
      /\ \/ w.pc = "off" /\ v.pc = "gate1"
         \/ w.pc \in Gates /\ v.pc = w.pc
         \/ w.pc = "gate1" /\ v.pc = "build"
         \/ w.pc = "gate2" /\ v.pc = "registry"
         \/ w.pc = "gate3" /\ v.pc = "spawn"
         \/ w.pc = "spawn" /\ v.pc = "register"
         \/ w.pc = "register" /\ v.pc = "await"
  BY <1>1, <1>2 DEF Fields
<1> HIDE DEF w, v
<1>4. /\ v.pc # "probe"
      /\ v.pc \in Alone => w.pc \in Alone
      /\ v.pc \in Begins => w.pc \in Begins
      /\ v.pc \in Gathers => w.pc \in Gathers
      /\ v.pc \in Asks => w.pc \in Asks
  BY <1>3 DEF Gates, Alone, Begins, Gathers, Asks
<1>5. Good(l, w)
  BY DEF w
<1>6. Good(l, v)
  BY <1>3, <1>4, <1>5, Strolls
<1> QED
  BY <1>6 DEF v

\* build_local_items makes the first entries.
LEMMA BuildGood ==
  ASSUME case \in Cases, DOMAIN list = Lists, NEW l \in Lists, Good(l, list[l]), Build(l)
  PROVE  Good(l, list'[l])
<1> DEFINE items == [i \in Own |-> LocalItem(case.records[i])]
           pc == IF Opts(l).probe THEN "probe" ELSE AfterLocal(l)
           w == list[l]
           v == list'[l]
<1>1. Built(l, items, {}) /\ \A i \in DOMAIN items : items[i].status = None
  BY BuildBuilds
<1>2. /\ Fields \subseteq DOMAIN w /\ w.pc = "build"
      /\ w.got = {} /\ w.begun = {} /\ w.rx = <<>>
  BY DEF Good, Build, Begins, Alone
<1>3. list' = [list EXCEPT ![l].items = items, ![l].pc = pc]
  BY DEF Build, Own
<1>4. pc \in {"probe", "gate2", "finish"} /\ (pc = "probe" => Opts(l).probe)
  BY DEF AfterLocal
<1> HIDE DEF items, pc
<1>5. /\ Fields \subseteq DOMAIN v /\ v.pc = pc /\ v.items = items
      /\ v.got = {} /\ v.begun = {} /\ v.rx = <<>>
  BY <1>2, <1>3 DEF Fields
<1>6. <<>> \in Seq(Results)
  BY EmptySeq
<1> HIDE DEF v
<1>7. Good(l, v)
  BY <1>1, <1>4, <1>5, <1>6 DEF Good, Alone, Begins, Gathers, Asks
<1> QED
  BY <1>7 DEF v

\* A probe's result is about the record its thread was given.
LEMMA ProbeGood ==
  ASSUME case \in Cases, DOMAIN list = Lists, NEW l \in Lists, Good(l, list[l]),
         ProbeStart(l) \/ ProbeEnd(l)
  PROVE  Good(l, list'[l])
<1> DEFINE w == list[l]
           v == list'[l]
<1>1. /\ Fields \subseteq DOMAIN w /\ w.pc = "probe" /\ Opts(l).probe /\ w.got = {}
      /\ w.begun \subseteq Work /\ w.rx \in Seq(Results)
      /\ \A i \in DOMAIN w.items : w.items[i].status = None
      /\ Built(l, w.items, w.got)
  BY DEF Good, ProbeStart, ProbeEnd, Alone, Gathers
<1>2. CASE ProbeStart(l)
  <2>1. PICK i \in Work : list' = [list EXCEPT ![l].begun = @ \cup {i}]
    BY <1>2 DEF ProbeStart
  <2>2. /\ Fields \subseteq DOMAIN v /\ v.pc = "probe" /\ v.items = w.items /\ v.got = w.got
        /\ v.begun \subseteq Work /\ v.rx = w.rx
    BY <1>1, <2>1 DEF Fields
  <2> HIDE DEF v
  <2>3. Good(l, v)
    BY <1>1, <2>2 DEF Good, Alone, Begins, Gathers, Asks
  <2> QED
    BY <2>3 DEF v
<1>3. CASE ProbeEnd(l)
  <2>1. PICK i \in Active(l), net \in case.nets :
           list' = [list EXCEPT ![l].rx =
                      Append(@, [idx |-> i, of |-> list[l].items[i].from,
                                 up |-> Reachable(case.records[i].profile, net)])]
    BY <1>3 DEF ProbeEnd
  <2> DEFINE r == [idx |-> i, of |-> list[l].items[i].from,
                   up |-> Reachable(case.records[i].profile, net)]
  <2>2. i \in Work /\ i \in Own
    BY <1>1 DEF Active, Work, Own
  <2>3. Local(l, i, w.items[i])
    BY <1>1, <2>2 DEF Built
  <2>4. list[l].items[i].from = Record(<<>>, case.records[i])
    BY <2>2, <2>3, LocalFrom
  <2>5. Reachable(case.records[i].profile, net) \in BOOLEAN
    BY DEF Reachable
  <2>6. r \in Results
    BY <2>2, <2>4, <2>5 DEF Results
  <2>7. list' = [list EXCEPT ![l].rx = Append(@, r)]
    BY <2>1
  <2> HIDE DEF r
  <2>8. /\ Fields \subseteq DOMAIN v /\ v.pc = "probe" /\ v.items = w.items /\ v.got = w.got
        /\ v.begun = w.begun /\ v.rx = Append(w.rx, r)
    BY <1>1, <2>7 DEF Fields
  <2>9. v.rx \in Seq(Results)
    BY <1>1, <2>6, <2>8, AppendProperties
  <2> HIDE DEF v
  <2>10. Good(l, v)
    BY <1>1, <2>8, <2>9 DEF Good, Alone, Begins, Gathers, Asks
  <2> QED
    BY <2>10 DEF v
<1> QED
  BY <1>2, <1>3

\* The probes are joined.
LEMMA JoinGood ==
  ASSUME case \in Cases, DOMAIN list = Lists, NEW l \in Lists, Good(l, list[l]), ProbeJoin(l)
  PROVE  Good(l, list'[l])
<1> DEFINE w == list[l]
           v == list'[l]
           items == Applied(w.items, w.rx, Work)
<1>1. /\ Fields \subseteq DOMAIN w /\ w.pc = "probe" /\ Opts(l).probe /\ w.got = {}
      /\ w.rx \in Seq(Results)
      /\ \A i \in DOMAIN w.items : w.items[i].status = None
      /\ Built(l, w.items, {})
  BY DEF Good, ProbeJoin, Alone, Gathers
<1>2. {r.idx : r \in ToSet(w.rx)} = Work
  BY DEF ProbeJoin, Arrived
<1>3. Built(l, items, {})
  <2> HIDE DEF w
  <2> QED
    BY <1>1, <1>2, JoinBuilds
<1>4. /\ list' = [list EXCEPT ![l].items = items, ![l].rx = <<>>, ![l].begun = {},
                              ![l].pc = AfterLocal(l)]
      /\ AfterLocal(l) \in {"gate2", "finish"}
  BY DEF ProbeJoin, AfterLocal
<1> HIDE DEF items
<1>5. /\ Fields \subseteq DOMAIN v /\ v.pc \in {"gate2", "finish"} /\ v.items = items
      /\ v.got = {}
  BY <1>1, <1>4 DEF Fields
<1> HIDE DEF v
<1>6. Good(l, v)
  BY <1>3, <1>5 DEF Good, Alone, Begins, Gathers, Asks
<1> QED
  BY <1>6 DEF v

\* The registry is read: nobody has been asked.
LEMMA ReadGood ==
  ASSUME FileGood, DOMAIN list = Lists, DOMAIN answer = Lists, NEW l \in Lists,
         Good(l, list[l]), Told(l, answer[l]), ReadRegistry(l)
  PROVE  Good(l, list'[l])
<1> DEFINE w == list[l]
           v == list'[l]
           todo == SubSeq(file, 1, IF Len(file) < MaxBastions THEN Len(file) ELSE MaxBastions)
<1>1. /\ Fields \subseteq DOMAIN w /\ w.pc = "registry" /\ w.got = {}
      /\ Built(l, w.items, w.got)
  BY DEF Good, ReadRegistry, Alone, Gathers
<1>2. CASE ~Readable
  BY <1>1, <1>2, Stops DEF ReadRegistry
<1>3. CASE Readable
  <2>1. todo # <<>> => Queue(todo, {})
    BY <1>3, QueueStart
  <2>2. list' = [list EXCEPT ![l].todo = todo, ![l].pc = AfterBastion(todo)]
    BY <1>3 DEF ReadRegistry
  <2>3. \/ AfterBastion(todo) = "finish"
        \/ AfterBastion(todo) = "gate3" /\ todo # <<>>
    BY DEF AfterBastion
  <2> HIDE DEF todo
  <2>4. /\ Fields \subseteq DOMAIN v /\ v.items = w.items /\ v.got = w.got /\ v.todo = todo
        /\ v.pc = AfterBastion(todo)
    BY <1>1, <2>2 DEF Fields
  <2> HIDE DEF v
  <2>5. Good(l, v)
    BY <1>1, <2>1, <2>3, <2>4 DEF Good, Alone, Begins, Gathers, Asks
  <2> QED
    BY <2>5 DEF v
<1> QED
  BY <1>2, <1>3

\* The next bastion: the one before has answered, or is left out.
LEMMA NextGood ==
  ASSUME NEW l, NEW v, NEW todo, NEW got \in SUBSET Aliases,
         Fields \subseteq DOMAIN v, v.pc = AfterBastion(todo), v.todo = todo, v.got = got,
         Built(l, v.items, got), todo # <<>> => Queue(todo, got)
  PROVE  Good(l, v)
<1>1. \/ v.pc = "finish"
      \/ v.pc = "gate3" /\ todo # <<>>
  BY DEF AfterBastion
<1> QED
  BY <1>1 DEF Good, Alone, Begins, Gathers, Asks

\* The gate stays shut.
LEMMA FailsGood ==
  ASSUME DOMAIN list = Lists, DOMAIN answer = Lists, NEW l \in Lists, Good(l, list[l]),
         Told(l, answer[l]), list[l].pc \in Gates, GateFails(l)
  PROVE  Good(l, list'[l])
<1> DEFINE w == list[l]
           v == list'[l]
<1>1. CASE w.pc # "gate3"
  BY <1>1, Stops DEF GateFails, Gates
<1>2. CASE w.pc = "gate3"
  <2>1. /\ Fields \subseteq DOMAIN w /\ Queue(w.todo, w.got) /\ w.got \in SUBSET Aliases
        /\ Built(l, w.items, w.got)
    BY <1>2 DEF Good, Asks, Gathers
  <2> DEFINE rest == Tail(w.todo)
             pc == AfterBastion(rest)
  <2>2. rest # <<>> => Queue(rest, w.got)
    BY <2>1, QueueNext
  <2>3. list' = [list EXCEPT ![l].pc = pc, ![l].waits = FALSE, ![l].todo = rest]
    BY <1>2, <2>1 DEF GateFails, Fields
  <2> HIDE DEF rest, pc
  <2>4. /\ Fields \subseteq DOMAIN v /\ v.items = w.items /\ v.got = w.got /\ v.todo = rest
        /\ v.pc = pc
    BY <2>1, <2>3 DEF Fields
  <2> HIDE DEF w, v
  <2>5. Good(l, v)
    BY <2>1, <2>2, <2>4, NextGood DEF pc
  <2> QED
    BY <2>5 DEF v
<1> QED
  BY <1>1, <1>2

\* The bastion has been asked.
LEMMA CollectGood ==
  ASSUME case \in Cases, DOMAIN list = Lists, NEW l \in Lists, Good(l, list[l]), Collect(l)
  PROVE  Good(l, list'[l])
<1> DEFINE w == list[l]
           v == list'[l]
           b == Head(w.todo)
           found == child[l].st = "ok"
           rest == Tail(w.todo)
           got == IF found THEN w.got \cup {b} ELSE w.got
           items == IF found THEN w.items \o Adopted(b) ELSE w.items
           pc == AfterBastion(rest)
<1>1. /\ Fields \subseteq DOMAIN w /\ Queue(w.todo, w.got) /\ w.got \in SUBSET Aliases
      /\ Built(l, w.items, w.got)
  BY DEF Good, Collect, Asks, Gathers
<1>2. /\ b \in Aliases /\ b \notin w.got
      /\ rest # <<>> => Queue(rest, w.got) /\ Queue(rest, w.got \cup {b})
  BY <1>1, QueueNext
<1>3. list' = [list EXCEPT ![l].items = items, ![l].got = got, ![l].todo = rest, ![l].pc = pc]
  BY <1>1 DEF Collect, Fields
<1>4. /\ Built(l, items, got) /\ got \in SUBSET Aliases
      /\ rest # <<>> => Queue(rest, got)
  <2>1. CASE found
    <3>1. Built(l, w.items \o Adopted(b), w.got \cup {b})
      <4> HIDE DEF w, b
      <4> QED
        BY <1>1, <1>2, CollectBuilds
    <3> QED
      BY <1>1, <1>2, <2>1, <3>1
  <2>2. CASE ~found
    BY <1>1, <1>2, <2>2
  <2> QED
    BY <2>1, <2>2
<1> HIDE DEF items, got, rest, pc
<1>5. /\ Fields \subseteq DOMAIN v /\ v.items = items /\ v.got = got /\ v.todo = rest
      /\ v.pc = pc
  BY <1>1, <1>3 DEF Fields
<1> HIDE DEF v
<1>6. Good(l, v)
  BY <1>4, <1>5, NextGood DEF pc
<1> QED
  BY <1>6 DEF v

-----------------------------------------------------------------------------
(* What a step does to all of them *)

\* Each step of a list call keeps its worker as it should be.
LEMMA OwnGood ==
  ASSUME IInv, LInv, NEW l \in Lists,
         ListStart(l) \/ Worker(l) \/ GateFails(l) \/ McpTimeout(l)
  PROVE  Good(l, list'[l])
<1>1. /\ case \in Cases /\ FileGood /\ DOMAIN list = Lists /\ DOMAIN answer = Lists
      /\ Good(l, list[l]) /\ Told(l, answer[l])
      /\ list[l].waits => list[l].pc \in Gates
  BY DEF IInv, LInv, Shaped, AtGates
<1>2. CASE ListStart(l) \/ Gate(l) \/ GateOpens(l) \/ Spawn(l) \/ Register(l)
  BY <1>1, <1>2, MovesGood DEF GateOpens
<1>3. CASE Build(l)
  BY <1>1, <1>3, BuildGood
<1>4. CASE ProbeStart(l) \/ ProbeEnd(l)
  BY <1>1, <1>4, ProbeGood
<1>5. CASE ProbeJoin(l)
  BY <1>1, <1>5, JoinGood
<1>6. CASE ReadRegistry(l)
  BY <1>1, <1>6, ReadGood
<1>7. CASE Collect(l)
  BY <1>1, <1>7, CollectGood
<1>8. CASE Finish(l)
  BY <1>1, <1>8, Stops DEF Finish
<1>9. CASE GateFails(l)
  BY <1>1, <1>9, FailsGood DEF GateFails
<1>10. CASE McpTimeout(l)
  BY <1>1, <1>10 DEF McpTimeout
<1> QED
  BY <1>2, <1>3, <1>4, <1>5, <1>6, <1>7, <1>8, <1>9, <1>10 DEF Worker

\* Only the step that finishes a list answers it with entries, and a list that
\* has been so answered takes no step.
LEMMA OwnTold ==
  ASSUME IInv, LInv, NEW l \in Lists,
         ListStart(l) \/ Worker(l) \/ GateFails(l) \/ McpTimeout(l)
  PROVE  /\ DOMAIN answer' = Lists
         /\ \A m \in Lists \ {l} : answer'[m] = answer[m]
         /\ {"kind", "items"} \subseteq DOMAIN answer'[l]
         /\ answer'[l].kind = "items" =>
              /\ list'[l].pc = "over" /\ list'[l].got = list[l].got
              /\ ListTrue(l, answer'[l].items)
<1>1. /\ case \in Cases /\ DOMAIN list = Lists /\ DOMAIN answer = Lists
      /\ Good(l, list[l]) /\ Told(l, answer[l])
      /\ {"kind", "items"} \subseteq DOMAIN answer[l]
      /\ answer[l].kind = "items" => list[l].pc = "over"
      /\ list[l].waits => list[l].pc \in Gates
  BY DEF IInv, LInv, Shaped, AtGates, Told
<1>2. CASE UNCHANGED answer /\ list[l].pc # "over"
  BY <1>1, <1>2
<1>3. ASSUME NEW kind, NEW items, Over(l, kind, items), list[l].pc # "over",
             kind = "items" => ListTrue(l, items)
      PROVE  /\ DOMAIN answer' = Lists
             /\ \A m \in Lists \ {l} : answer'[m] = answer[m]
             /\ {"kind", "items"} \subseteq DOMAIN answer'[l]
             /\ answer'[l].kind = "items" =>
                  /\ list'[l].pc = "over" /\ list'[l].got = list[l].got
                  /\ ListTrue(l, answer'[l].items)
  <2>1. /\ list'[l].pc = "over" /\ list'[l].got = list[l].got
        /\ \A m \in Lists \ {l} : answer'[m] = answer[m]
        /\ DOMAIN answer' = Lists
        /\ {"kind", "items"} \subseteq DOMAIN answer'[l]
        /\ answer'[l].kind = "items" => kind = "items" /\ answer'[l].items = items
    BY <1>1, <1>3, Stops
  <2> QED
    BY <1>3, <2>1
<1>4. CASE Finish(l)
  <2>1. /\ list[l].pc = "finish" /\ Over(l, "items", Kept(list[l].items, Opts(l).only))
    BY <1>4 DEF Finish
  <2>2. Built(l, list[l].items, list[l].got) /\ list[l].got \in SUBSET Aliases
    BY <1>1, <2>1 DEF Good, Gathers
  <2>3. ListTrue(l, Kept(list[l].items, Opts(l).only))
    BY <1>1, <2>2, FinishTells
  <2> QED
    BY <1>3, <2>1, <2>3
<1>5. CASE GateFails(l)
  <2>1. list[l].pc # "over"
    BY <1>1, <1>5 DEF GateFails, Gates
  <2>2. UNCHANGED answer \/ Over(l, "locked", <<>>)
    BY <1>5 DEF GateFails
  <2> QED
    BY <1>2, <1>3, <2>1, <2>2
<1>6. CASE ReadRegistry(l)
  <2>1. list[l].pc # "over" /\ (UNCHANGED answer \/ Over(l, "error", <<>>))
    BY <1>6 DEF ReadRegistry
  <2> QED
    BY <1>2, <1>3, <2>1
<1>7. CASE McpTimeout(l)
  <2>1. answer' = [answer EXCEPT ![l].kind = "late"]
    BY <1>7 DEF McpTimeout
  <2> QED
    BY <1>1, <2>1
<1>8. CASE \/ ListStart(l) \/ Gate(l) \/ GateOpens(l) \/ Build(l) \/ ProbeStart(l)
           \/ ProbeEnd(l) \/ ProbeJoin(l) \/ Spawn(l) \/ Register(l) \/ Collect(l)
  <2>1. UNCHANGED answer /\ list[l].pc # "over"
    BY <1>1, <1>8, Zenon DEF ListStart, Gate, GateOpens, Gates, Build, ProbeStart, ProbeEnd,
       ProbeJoin, Spawn, Register, Collect
  <2> QED
    BY <1>2, <2>1
<1> QED
  BY <1>4, <1>5, <1>6, <1>7, <1>8 DEF Worker

\* What a worker has stays as it should be when the rest of the state changes.
LEMMA GoodStays ==
  ASSUME case' = case, NEW l \in Lists, Good(l, list'[l])
  PROVE  Good(l, list[l])'
<1>1. /\ Aliases' = Aliases /\ Opts(l)' = Opts(l) /\ Work' = Work /\ Own' = Own
  BY DEF Aliases, SshNames, Opts, Work, Own
<1>2. Results' = Results
  BY <1>1 DEF Results
<1>3. ASSUME NEW i, NEW it PROVE Local(l, i, it)' <=> Local(l, i, it)
  BY <1>1 DEF Local
<1>4. ASSUME NEW b PROVE Adopted(b)' = Adopted(b)
  BY DEF Adopted
<1> QED
  BY <1>1, <1>2, <1>3, <1>4 DEF Good, Built, Queue, Far

\* What is true of an answer stays true while its bastions are the same.
LEMMA TrueStays ==
  ASSUME case' = case, NEW l \in Lists, list'[l].got = list[l].got,
         ListTrue(l, answer'[l].items)
  PROVE  ListTrue(l, answer[l].items)'
<1>1. Opts(l)' = Opts(l) /\ Work' = Work
  BY DEF Opts, Work
<1>2. LocalRecords' = LocalRecords
  BY DEF LocalRecords
<1>3. ASSUME NEW b PROVE FarRecords(b)' = FarRecords(b)
  BY DEF FarRecords
<1>4. Expected(l)' = Expected(l)
  BY <1>2, <1>3 DEF Expected
<1>5. Spared(l)' = Spared(l)
  BY <1>1 DEF Spared
<1> QED
  BY <1>1, <1>4, <1>5 DEF ListTrue, Truthful

LEMMA ListsBegin == Init => LInv
<1> SUFFICES ASSUME Init PROVE LInv
  OBVIOUS
<1>1. DOMAIN answer = Lists /\ \A l \in Lists : list[l] = Idle /\ answer[l] = NoAnswer
  BY DEF Init
<1>2. Fields \subseteq DOMAIN Idle /\ Idle.pc = "off" /\ Idle.got = {} /\ Idle.begun = {}
      /\ Idle.rx = <<>>
  BY DEF Idle, Fields
<1>3. ASSUME NEW l \in Lists PROVE Good(l, Idle)
  BY <1>2 DEF Good, Alone, Begins, Gathers, Asks
<1>4. ASSUME NEW l \in Lists PROVE Told(l, NoAnswer)
  BY DEF Told, NoAnswer
<1> QED
  BY <1>1, <1>3, <1>4 DEF LInv

\* Every step keeps the second invariant, given the first.
LEMMA ListsKept == IInv /\ LInv /\ [Next]_vars => LInv'
<1> SUFFICES ASSUME IInv, LInv, [Next]_vars PROVE LInv'
  OBVIOUS
<1>1. /\ case' = case /\ DOMAIN list = Lists /\ DOMAIN answer = Lists
      /\ \A l \in Lists : Good(l, list[l]) /\ Told(l, answer[l])
  BY CaseKept DEF IInv, Shaped, LInv
<1>2. ASSUME NEW l \in Lists, list'[l] = list[l], answer'[l] = answer[l]
      PROVE  Good(l, list[l])' /\ Told(l, answer[l])'
  <2>1. Good(l, list'[l])
    BY <1>1, <1>2
  <2>2. Good(l, list[l])'
    BY <1>1, <2>1, GoodStays
  <2>3. answer'[l].kind = "items" => list'[l].pc = "over" /\ ListTrue(l, answer'[l].items)
    BY <1>1, <1>2 DEF Told
  <2>4. answer'[l].kind = "items" => ListTrue(l, answer[l].items)'
    BY <1>1, <1>2, <2>3, TrueStays
  <2>5. {"kind", "items"} \subseteq DOMAIN answer'[l]
    BY <1>1, <1>2 DEF Told
  <2> QED
    BY <2>2, <2>3, <2>4, <2>5 DEF Told
<1>3. CASE UNCHANGED <<list, answer>>
  BY <1>1, <1>2, <1>3 DEF LInv
<1>4. ASSUME NEW l \in Lists, ListStart(l) \/ Worker(l) \/ GateFails(l) \/ McpTimeout(l)
      PROVE  LInv'
  <2>1. \A m \in Lists \ {l} : list'[m] = list[m]
    <3>1. Shaped /\ AtGates
      BY DEF IInv
    <3> QED
      BY <1>4, <3>1, WalkingSteps, HoldingSteps DEF Worker, McpTimeout, Walks, Moved
  <2>2. /\ DOMAIN answer' = Lists
        /\ \A m \in Lists \ {l} : answer'[m] = answer[m]
        /\ {"kind", "items"} \subseteq DOMAIN answer'[l]
        /\ answer'[l].kind = "items" =>
             /\ list'[l].pc = "over" /\ list'[l].got = list[l].got
             /\ ListTrue(l, answer'[l].items)
    BY <1>4, OwnTold
  <2>3. Good(l, list[l])'
    BY <1>1, <1>4, OwnGood, GoodStays
  <2>4. answer'[l].kind = "items" => ListTrue(l, answer[l].items)'
    BY <1>1, <2>2, TrueStays
  <2>5. Told(l, answer[l])'
    BY <2>2, <2>4 DEF Told
  <2>6. ASSUME NEW m \in Lists PROVE Good(m, list[m])' /\ Told(m, answer[m])'
    BY <1>2, <2>1, <2>2, <2>3, <2>5
  <2> QED
    BY <2>2, <2>6 DEF LInv
<1>5. CASE EditNext \/ Lapse \/ Unlock \/ UNCHANGED vars \/ Settled
  BY <1>3, <1>5 DEF EditNext, EditLoad, EditTruncate, EditWrite, EditorDies, Lapse, Unlock,
     vars, Settled
<1>6. CASE ChildNext \/ ExecNext
  BY <1>3, <1>6 DEF ChildNext, ChildGate, ChildOpens, ChildRefused, ChildEnds, Deadline,
     ExecNext, ExecGate, ExecAdmitted, ExecSpawn, ExecEnds
<1>7. CASE ApiNext
  BY <1>3, <1>7 DEF ApiNext, Send, Serve, Expire, ApiEdited, ApiGate, ApiAsked, ApiCollect
<1> QED
  BY <1>4, <1>5, <1>6, <1>7 DEF Next, ListNext

THEOREM ListsGood == Spec => []LInv
  BY Invariance, ListsBegin, ListsKept, PTL DEF Spec

\* Whatever order the probes end in and whichever bastions fail, a list that is
\* answered with entries tells the truth of each, and each record is there once.
THEOREM ListsTrue == Spec => []ItemsTrue
<1>1. LInv => ItemsTrue
  BY DEF LInv, Told, ItemsTrue
<1> QED
  BY ListsGood, <1>1, PTL
=============================================================================
