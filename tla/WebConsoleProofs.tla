-------------------------- MODULE WebConsoleProofs --------------------------
(***************************************************************************)
(* Theorems about the front ends of the web interface that reach targets:  *)
(* the terminals (WebTerminal), the SQL console (SqlConsole) and the file  *)
(* manager (FileManager), for any number of terminals, requests, accounts, *)
(* connections and edits, and any limits.                                  *)
(***************************************************************************)
EXTENDS MCWebConsole, FiniteSetTheorems, TLAPS

-----------------------------------------------------------------------------
(* Terminals: the slots of a user. *)

TermRecords ==
    [pc : {"none", "over", "upgrade", "connect", "prompt", "pty", "shell", "spawn", "bridge",
           "kill", "join", "cleanup", "return"},
     row : {"none", "active", "ended", "deleted"},
     browser : BOOLEAN, asked : BOOLEAN, close : BOOLEAN,
     input : {"none", "run", "abort", "ended"}, output : {"none", "run", "abort", "ended"}]

Gone == {"none", "over"}

\* The SSH terminals that are past their admission and have not returned.
Admitted == {t \in Terms : kind[t] = "ssh" /\ term[t].pc \notin Gone}

TermInv == /\ term \in [Terms -> TermRecords]
           /\ slots \in Nat
           /\ IsFiniteSet(Admitted)
           /\ SlotsMatchTerminals

\* A step of terminal t that keeps it on its side of the admission.
LEMMA TermStays ==
    ASSUME TermInv, NEW t \in Terms, NEW r \in TermRecords, term' = [term EXCEPT ![t] = r],
           (r.pc \in Gone) <=> (term[t].pc \in Gone), UNCHANGED <<kind, slots>>
    PROVE  TermInv'
<1>1. term' \in [Terms -> TermRecords] /\ slots' \in Nat
  BY DEF TermInv
<1>2. Admitted' = Admitted
  <2>1. term'[t] = r /\ \A s \in Terms \ {t} : term'[s] = term[s]
    BY DEF TermInv
  <2>2. ASSUME NEW s \in Terms PROVE (term'[s].pc \in Gone) <=> (term[s].pc \in Gone)
    BY <2>1
  <2> QED BY <2>2 DEF Admitted
<1>3. SlotsMatchTerminals'
  <2>1. slots = Cardinality(Admitted) /\ slots <= MAX_SESSIONS_PER_USER
    BY DEF TermInv, SlotsMatchTerminals, Admitted, Gone
  <2>2. slots' = Cardinality(Admitted') /\ slots' <= MAX_SESSIONS_PER_USER
    BY <1>2, <2>1
  <2> QED BY <2>2 DEF SlotsMatchTerminals, Admitted, Gone
<1> QED BY <1>1, <1>2, <1>3 DEF TermInv

\* A handler that returns gives its slot back, if it has one.
LEMMA TermReturns ==
    ASSUME TermInv, NEW t \in Terms, term[t].pc \notin Gone, Returns(t), UNCHANGED kind
    PROVE  TermInv'
<1> DEFINE row == IF term[t].row = "active" THEN "ended" ELSE term[t].row
           r == [term[t] EXCEPT !.pc = "over", !.row = row]
<1>1. term[t] \in TermRecords
  BY DEF TermInv
<1>2. term' = [term EXCEPT ![t] = r] /\ slots' = IF kind[t] = "ssh" THEN slots - 1 ELSE slots
  BY DEF Returns, release
<1>3. row \in {"none", "active", "ended", "deleted"}
  BY <1>1 DEF TermRecords
<1> HIDE DEF row
<1>4. r \in TermRecords /\ r.pc = "over"
  BY <1>1, <1>3 DEF TermRecords
<1> HIDE DEF r
<1>5. term' \in [Terms -> TermRecords]
  BY <1>2, <1>4 DEF TermInv
<1>6. CASE kind[t] = "ssh"
  <2>1. t \in Admitted /\ Admitted' = Admitted \ {t}
    BY <1>2, <1>4, <1>6 DEF Admitted, Gone, TermInv
  <2>2. slots = Cardinality(Admitted) /\ slots <= MAX_SESSIONS_PER_USER /\ slots \in Nat
    BY DEF TermInv, SlotsMatchTerminals, Admitted, Gone
  <2>3. IsFiniteSet(Admitted') /\ Cardinality(Admitted') = Cardinality(Admitted) - 1
    BY <2>1, FS_RemoveElement DEF TermInv
  <2>4. Cardinality(Admitted') \in Nat
    BY <2>3, FS_CardinalityType
  <2>5. slots' = Cardinality(Admitted') /\ slots' <= MAX_SESSIONS_PER_USER /\ slots' \in Nat
    BY <1>2, <1>6, <2>2, <2>3, <2>4, TermAssumption
  <2> QED BY <1>5, <2>3, <2>5 DEF TermInv, SlotsMatchTerminals, Admitted, Gone
<1>7. CASE kind[t] # "ssh"
  <2>1. Admitted' = Admitted /\ slots' = slots
    BY <1>2, <1>7 DEF Admitted, TermInv
  <2> QED BY <1>5, <2>1 DEF TermInv, SlotsMatchTerminals, Admitted, Gone
<1> QED BY <1>6, <1>7

\* The admission of a terminal takes a slot, or needs none, or refuses.
LEMMA TermAdmits ==
    ASSUME TermInv, NEW t \in Terms, api_terminal(t)
    PROVE  TermInv'
<1>1. term[t] \in TermRecords /\ term[t].pc = "none" /\ UNCHANGED kind
  BY DEF TermInv, api_terminal
<1>2. ASSUME NEW pc \in {"over", "upgrade"}
      PROVE  /\ [term[t] EXCEPT !.pc = pc] \in TermRecords
             /\ [term[t] EXCEPT !.pc = pc].pc = pc
  BY <1>1 DEF TermRecords
<1>3. CASE To(t, "over") /\ UNCHANGED slots
  <2>1. term' = [term EXCEPT ![t] = [term[t] EXCEPT !.pc = "over"]]
    BY <1>3 DEF To
  <2> QED BY <1>1, <1>2, <1>3, <2>1, TermStays DEF Gone
<1>4. CASE kind[t] = "db" /\ To(t, "upgrade") /\ UNCHANGED slots
  <2>1. term' = [term EXCEPT ![t] = [term[t] EXCEPT !.pc = "upgrade"]]
    BY <1>4 DEF To
  <2>2. term' \in [Terms -> TermRecords]
    BY <1>2, <2>1 DEF TermInv
  <2>3. Admitted' = Admitted
    BY <1>1, <1>4, <2>1 DEF Admitted, TermInv
  <2> QED BY <1>4, <2>2, <2>3 DEF TermInv, SlotsMatchTerminals, Admitted, Gone
<1>5. CASE /\ kind[t] = "ssh" /\ slots < MAX_SESSIONS_PER_USER
           /\ To(t, "upgrade") /\ slots' = SlotTaken(t)
  <2>1. term' = [term EXCEPT ![t] = [term[t] EXCEPT !.pc = "upgrade"]]
    BY <1>5 DEF To
  <2>2. term' \in [Terms -> TermRecords]
    BY <1>2, <2>1 DEF TermInv
  <2>3. t \notin Admitted /\ Admitted' = Admitted \cup {t}
    <3>1. term'[t].pc = "upgrade" /\ \A s \in Terms \ {t} : term'[s] = term[s]
      BY <1>2, <2>1 DEF TermInv
    <3> QED BY <1>1, <1>5, <3>1 DEF Admitted, Gone
  <2>4. slots = Cardinality(Admitted) /\ slots \in Nat /\ slots' = slots + 1
    BY <1>5 DEF TermInv, SlotsMatchTerminals, Admitted, Gone, SlotTaken
  <2>5. IsFiniteSet(Admitted') /\ Cardinality(Admitted') = Cardinality(Admitted) + 1
    BY <2>3, FS_AddElement DEF TermInv
  <2>6. slots' = Cardinality(Admitted') /\ slots' <= MAX_SESSIONS_PER_USER /\ slots' \in Nat
    BY <1>5, <2>4, <2>5, TermAssumption
  <2> QED BY <2>2, <2>5, <2>6 DEF TermInv, SlotsMatchTerminals, Admitted, Gone
<1> QED BY <1>3, <1>4, <1>5 DEF api_terminal

\* A handler that moves from one step to another keeps its slot.
LEMMA TermMoves ==
    ASSUME TermInv, NEW t \in Terms, term[t].pc \notin Gone, UNCHANGED <<kind, slots>>,
           NEW pc \in {"upgrade", "connect", "prompt", "pty", "shell", "spawn", "bridge", "kill",
                       "join", "cleanup", "return"}, To(t, pc)
    PROVE  TermInv'
<1>1. term[t] \in TermRecords
  BY DEF TermInv
<1>2. [term[t] EXCEPT !.pc = pc] \in TermRecords /\ [term[t] EXCEPT !.pc = pc].pc \notin Gone
  BY <1>1 DEF TermRecords, Gone
<1>3. term' = [term EXCEPT ![t] = [term[t] EXCEPT !.pc = pc]]
  BY DEF To
<1> QED BY <1>2, <1>3, TermStays

\* The handler of an admitted terminal keeps the slot until it returns.
LEMMA HandlerKeepsTermInv ==
    ASSUME TermInv, NEW t \in Terms, Handler(t)
    PROVE  TermInv'
<1>1. term[t] \in TermRecords
  BY DEF TermInv
<1>2. UNCHANGED kind
  BY DEF Handler, resolve_and_authorize, establish_ssh_session, spawn_db_client, SpawnFails,
         bridge_websocket_pty, handle_host_key_verification, prompt_host_key_via_websocket,
         wait_for_connection, wait_for_success, bridge_websocket_ssh, select, KillAndJoin,
         Joined, cleanup_empty_session, HandlerReturns
<1>3. CASE resolve_and_authorize(t) \/ SpawnFails(t) \/ HandlerReturns(t)
  <2>1. term[t].pc \notin Gone /\ Returns(t)
    BY <1>3 DEF resolve_and_authorize, SpawnFails, HandlerReturns, At, Gone
  <2> QED BY <1>2, <2>1, TermReturns
<1>4. CASE establish_ssh_session(t) \/ spawn_db_client(t)
  <2>1. PICK pc \in {"connect", "spawn"} : /\ term' = Registered(t, pc)
                                         /\ term[t].pc = "upgrade" /\ UNCHANGED slots
    BY <1>4 DEF establish_ssh_session, spawn_db_client, At
  <2> DEFINE r == [term[t] EXCEPT !.pc = pc, !.row = "active"]
  <2>2. r \in TermRecords /\ r.pc = pc
    BY <1>1 DEF TermRecords
  <2>3. term' = [term EXCEPT ![t] = r]
    BY <2>1 DEF Registered
  <2> QED BY <1>2, <2>1, <2>2, <2>3, TermStays DEF Gone
<1>5. CASE bridge_websocket_pty(t) \/ bridge_websocket_ssh(t)
  <2> DEFINE r == [term[t] EXCEPT !.pc = "bridge", !.input = "run", !.output = "run"]
  <2>1. term' = [term EXCEPT ![t] = r] /\ term[t].pc \in {"spawn", "shell"} /\ UNCHANGED slots
    BY <1>5 DEF bridge_websocket_pty, bridge_websocket_ssh, At
  <2>2. r \in TermRecords /\ r.pc = "bridge"
    BY <1>1 DEF TermRecords
  <2> QED BY <1>2, <2>1, <2>2, TermStays DEF Gone
<1>6. CASE handle_host_key_verification(t)
  <2>1. PICK mode \in HostKeyModes :
           CASE mode = "AutoAccept" ->
                  /\ up' = [up EXCEPT ![t] = [@ EXCEPT !.st = "up", !.event = "Connected"]]
                  /\ UNCHANGED <<term, slots>>
             [] mode = "AutoReject" -> Returns(t) /\ Told(t)
             [] mode = "Prompt" -> To(t, "prompt") /\ UNCHANGED <<up, slots>>
    BY <1>6 DEF handle_host_key_verification
  <2>2. term[t].pc = "connect" /\ mode \in {"AutoAccept", "AutoReject", "Prompt"}
    BY <1>6, TermAssumption DEF handle_host_key_verification, At
  <2>3. CASE mode = "AutoAccept"
    <3>1. UNCHANGED <<term, slots, kind>>
      BY <1>2, <2>1, <2>3
    <3> QED BY <3>1 DEF TermInv, Admitted, SlotsMatchTerminals
  <2>4. CASE mode = "AutoReject"
    <3>1. Returns(t)
      BY <2>1, <2>4
    <3> QED BY <1>2, <2>2, <3>1, TermReturns DEF Gone
  <2>5. CASE mode = "Prompt"
    <3>1. To(t, "prompt") /\ UNCHANGED slots
      BY <2>1, <2>5
    <3> QED BY <1>2, <2>2, <3>1, TermMoves DEF Gone
  <2> QED BY <2>2, <2>3, <2>4, <2>5
<1>7. CASE prompt_host_key_via_websocket(t, FALSE)
  <2>1. term[t].pc \notin Gone /\ Returns(t)
    BY <1>7 DEF prompt_host_key_via_websocket, At, Gone
  <2> QED BY <1>2, <2>1, TermReturns
<1>8. CASE wait_for_connection(t) \/ wait_for_success(t)
  <2>1. /\ term[t].pc \in {"connect", "pty", "shell"}
        /\ \/ Returns(t)
           \/ \E pc \in {"pty", "shell"} : To(t, pc) /\ UNCHANGED slots
    BY <1>8 DEF wait_for_connection, wait_for_success, At
  <2> QED BY <1>2, <2>1, TermReturns, TermMoves DEF Gone
<1>9. CASE select(t)
  <2>1. term[t].pc = "bridge" /\ UNCHANGED slots
    BY <1>9 DEF select
  <2>2. CASE ClosedBridge(t)
    <3> DEFINE pc == IF kind[t] = "ssh" THEN "cleanup" ELSE "kill"
               i == Stopped(term[t].input)
               o == Stopped(term[t].output)
               r == [term[t] EXCEPT !.close = FALSE, !.browser = FALSE, !.pc = pc,
                                    !.input = i, !.output = o]
    <3>1. term' = [term EXCEPT ![t] = r]
      BY <2>2 DEF ClosedBridge
    <3>2. /\ pc \in {"cleanup", "kill"}
          /\ i \in {"none", "run", "abort", "ended"} /\ o \in {"none", "run", "abort", "ended"}
      BY <1>1 DEF TermRecords, Stopped
    <3> HIDE DEF pc, i, o
    <3>3. r \in TermRecords /\ r.pc = pc
      BY <1>1, <3>2 DEF TermRecords
    <3> HIDE DEF r
    <3> QED BY <1>2, <2>1, <3>1, <3>2, <3>3, TermStays DEF Gone
  <2>3. CASE \E pc \in {"cleanup", "kill"} : To(t, pc)
    BY <1>2, <2>1, <2>3, TermMoves DEF Gone
  <2> QED BY <1>9, <2>2, <2>3 DEF select
<1>10. CASE KillAndJoin(t) \/ Joined(t)
  <2>1. /\ term[t].pc \in {"kill", "join"} /\ UNCHANGED slots
        /\ \E pc \in {"join", "cleanup"} : To(t, pc)
    BY <1>10 DEF KillAndJoin, Joined, At
  <2> QED BY <1>2, <2>1, TermMoves DEF Gone
<1>11. CASE cleanup_empty_session(t)
  <2>1. term[t].pc = "cleanup" /\ UNCHANGED slots
    BY <1>11 DEF cleanup_empty_session
  <2>2. PICK short \in BOOLEAN :
           term' = [term EXCEPT ![t] = [@ EXCEPT !.pc = "return",
                      !.row = IF short \/ (kind[t] = "db" /\ ~up[t].said) THEN "deleted"
                                                                   ELSE term[t].row]]
    BY <1>11 DEF cleanup_empty_session
  <2> DEFINE row == IF short \/ (kind[t] = "db" /\ ~up[t].said) THEN "deleted" ELSE term[t].row
             r == [term[t] EXCEPT !.pc = "return", !.row = row]
  <2>3. term' = [term EXCEPT ![t] = r]
    BY <2>2
  <2>4. row \in {"none", "active", "ended", "deleted"}
    BY <1>1 DEF TermRecords
  <2> HIDE DEF row
  <2>5. r \in TermRecords /\ r.pc = "return"
    BY <1>1, <2>4 DEF TermRecords
  <2> HIDE DEF r
  <2> QED BY <1>2, <2>1, <2>3, <2>5, TermStays DEF Gone
<1> QED
  BY <1>3, <1>4, <1>5, <1>6, <1>7, <1>8, <1>9, <1>10, <1>11 DEF Handler

\* No step of a terminal, of its tasks, its client, its browser or its target loses a slot.
LEMMA NextKeepsTermInv == TermInv /\ [TermNext]_termVars => TermInv'
<1> SUFFICES ASSUME TermInv, [TermNext]_termVars PROVE TermInv'
  OBVIOUS
<1>1. ASSUME UNCHANGED <<kind, term, slots>> PROVE TermInv'
  BY <1>1 DEF TermInv, Admitted, SlotsMatchTerminals
<1>2. CASE UNCHANGED termVars
  BY <1>1, <1>2 DEF termVars
<1>3. ASSUME NEW t \in Terms, TermNext!(t)
      PROVE  TermInv'
  <2>1. term[t] \in TermRecords
    BY DEF TermInv
  <2>2. CASE api_terminal(t)
    BY <2>2, TermAdmits
  <2>3. CASE UpgradeFails(t)
    <3>1. term[t].pc \notin Gone /\ Returns(t) /\ UNCHANGED kind
      BY <2>3 DEF UpgradeFails, UpgradeDropped, Gone
    <3> QED BY <3>1, TermReturns
  <2>4. CASE Handler(t)
    BY <2>4, HandlerKeepsTermInv
  <2>5. CASE prompt_host_key_via_websocket(t, TRUE)
    <3>1. term[t].pc = "prompt" /\ To(t, "connect") /\ UNCHANGED <<kind, slots>>
      BY <2>5 DEF prompt_host_key_via_websocket, At
    <3> QED BY <3>1, TermMoves DEF Gone
  <2>6. CASE Threads(t) \/ Client(t) \/ WriteFails(t) \/ OutputTask(t) \/ TargetAnswers(t)
             \/ TargetDrops(t) \/ ChildExits(t)
    <3>1. UNCHANGED <<kind, term, slots>>
      BY <2>6 DEF Threads, ReaderEnds, WriterEnds, Client, ClientConnects, open_shell, ClientStops,
                  WriteFails, OutputTask, TargetAnswers, TargetDrops, ChildExits
    <3> QED BY <1>1, <3>1
  <2>7. CASE Tasks(t) \/ ShellExits(t) \/ BrowserLeaves(t) \/ CloseTerminal(t)
    <3>1. /\ UNCHANGED <<kind, slots>>
          /\ \/ term' = [term EXCEPT ![t] = [term[t] EXCEPT !.input = "ended"]]
             \/ term' = [term EXCEPT ![t] = [term[t] EXCEPT !.output = "ended"]]
             \/ term' = [term EXCEPT ![t] = [term[t] EXCEPT !.browser = FALSE]]
             \/ term' = [term EXCEPT ![t] = [term[t] EXCEPT !.close = TRUE, !.asked = TRUE]]
      BY <2>7 DEF Tasks, InputEnds, OutputEnds, Aborted, ShellExits, BrowserLeaves, CloseTerminal
    <3>2. PICK r : /\ term' = [term EXCEPT ![t] = r]
                   /\ \/ r = [term[t] EXCEPT !.input = "ended"]
                      \/ r = [term[t] EXCEPT !.output = "ended"]
                      \/ r = [term[t] EXCEPT !.browser = FALSE]
                      \/ r = [term[t] EXCEPT !.close = TRUE, !.asked = TRUE]
      BY <3>1
    <3>3. r \in TermRecords /\ r.pc = term[t].pc
      BY <2>1, <3>2 DEF TermRecords
    <3> QED BY <3>1, <3>2, <3>3, TermStays
  <2> QED
    BY <1>3, <2>2, <2>3, <2>4, <2>5, <2>6, <2>7
<1> QED BY <1>2, <1>3 DEF TermNext

\* Nobody has a terminal before the first request.
LEMMA InitTermInv == TermInit => TermInv
<1> SUFFICES ASSUME TermInit PROVE TermInv
  OBVIOUS
<1>1. NoTerm \in TermRecords /\ NoTerm.pc = "none"
  BY DEF NoTerm, TermRecords
<1>2. term \in [Terms -> TermRecords] /\ \A t \in Terms : term[t].pc = "none"
  BY <1>1 DEF TermInit
<1>3. Admitted = {}
  BY <1>2 DEF Admitted, Gone
<1>4. IsFiniteSet(Admitted) /\ Cardinality(Admitted) = 0
  BY <1>3, FS_EmptySet
<1>5. slots = 0 /\ 0 <= MAX_SESSIONS_PER_USER
  BY TermAssumption DEF TermInit
<1> QED BY <1>2, <1>4, <1>5 DEF TermInv, SlotsMatchTerminals, Admitted, Gone

\* The count of a user's SSH terminals is the number of slots the user holds, on every exit
\* path of the handler, and never exceeds the limit (SessionSlot).
THEOREM TerminalSlots == TermSpec => []SlotsMatchTerminals
<1>1. TermInv => SlotsMatchTerminals
  BY DEF TermInv
<1> QED BY <1>1, InitTermInv, NextKeepsTermInv, PTL DEF TermSpec

-----------------------------------------------------------------------------
(* The SQL console: what a request may be judged by. *)

PoolRecords == [by : SqlReqs \cup {"-", "closed"}, fp : Nat \X Nat]

TargetRows == [ver : Nat, readonly : BOOLEAN]

QueryRecords ==
    [pc : {"none", "over", "resolve", "account", "lookup", "build", "insert", "ready", "group",
           "validate", "acquire", "run", "record"},
     login : Logins \cup {"-"}, writes : BOOLEAN, since : Nat \X Nat, roSince : BOOLEAN,
     snap : TargetRows, pool : PoolRecords, ran : BOOLEAN]

\* The steps of a request that has read the target, and that knows its fingerprint.
Keyed == {"lookup", "build", "insert", "ready", "group", "validate", "acquire", "run"}
Snapped == Keyed \cup {"account", "record"}

\* What a request has read is at least as new as its arrival: the row it reads next, the copy
\* it keeps, and the fingerprint it looks the pool up by.  A read-only flag that was set when
\* it arrived is in the copy, unless the copy is newer; and it writes only under a copy
\* without the flag.
QueryOK(q, target, secret) ==
    /\ q.pc \in Snapped \cup {"resolve"} => q.login \in Logins
    /\ q.pc = "resolve" => /\ q.since[1] <= target.ver /\ q.since[2] <= secret
                           /\ q.roSince => target.readonly \/ target.ver > q.since[1]
    /\ q.pc \in Snapped => /\ q.since[1] <= q.snap.ver /\ q.since[2] <= secret
                           /\ q.roSince => q.snap.readonly \/ q.snap.ver > q.since[1]
    /\ q.pc \in Keyed => q.since[1] <= q.pool.fp[1] /\ q.since[2] <= q.pool.fp[2]
    /\ q.ran => q.pc = "record" /\ ~q.snap.readonly

SqlInv == /\ sqlTarget \in TargetRows
          /\ sqlSecret \in Nat
          /\ pools \in [Logins -> PoolRecords]
          /\ sqlReq \in [SqlReqs -> QueryRecords]
          /\ \A r \in SqlReqs : QueryOK(sqlReq[r], sqlTarget, sqlSecret)

\* A step of one request, with the pools it leaves.
LEMMA QuerySteps ==
    ASSUME SqlInv, NEW r \in SqlReqs, NEW q \in QueryRecords, sqlReq' = [sqlReq EXCEPT ![r] = q],
           QueryOK(q, sqlTarget, sqlSecret), UNCHANGED <<sqlTarget, sqlSecret>>,
           pools' \in [Logins -> PoolRecords]
    PROVE  SqlInv'
<1>1. sqlReq' \in [SqlReqs -> QueryRecords]
  BY DEF SqlInv
<1>2. ASSUME NEW s \in SqlReqs PROVE QueryOK(sqlReq'[s], sqlTarget, sqlSecret)
  BY DEF SqlInv
<1> QED BY <1>1, <1>2 DEF SqlInv

\* A request that is answered holds nothing.
LEMMA QueryEnds ==
    ASSUME SqlInv, NEW r \in SqlReqs, OverReq(r), UNCHANGED <<sqlTarget, sqlSecret, pools>>
    PROVE  SqlInv'
<1> DEFINE q == [NoQuery EXCEPT !.pc = "over"]
<1>1. q \in QueryRecords /\ q.pc = "over" /\ q.ran = FALSE
  BY DEF NoQuery, NoPool, QueryRecords, PoolRecords, TargetRows
<1>2. QueryOK(q, sqlTarget, sqlSecret)
  BY <1>1 DEF QueryOK, Snapped, Keyed
<1>3. sqlReq' = [sqlReq EXCEPT ![r] = q]
  BY DEF OverReq
<1>4. pools' \in [Logins -> PoolRecords]
  BY DEF SqlInv
<1> HIDE DEF q
<1> QED BY <1>1, <1>2, <1>3, <1>4, QuerySteps

\* A request that goes on with what it has read.
LEMMA QueryGoesOn ==
    ASSUME SqlInv, NEW r \in SqlReqs, NEW pc \in Keyed, Step(r, pc), sqlReq[r].pc \in Keyed,
           UNCHANGED <<sqlTarget, sqlSecret>>, pools' \in [Logins -> PoolRecords]
    PROVE  SqlInv'
<1> DEFINE q == [sqlReq[r] EXCEPT !.pc = pc]
<1>1. sqlReq[r] \in QueryRecords /\ QueryOK(sqlReq[r], sqlTarget, sqlSecret)
  BY DEF SqlInv
<1>2. q \in QueryRecords /\ q.pc = pc
  BY <1>1 DEF QueryRecords, Keyed
<1>3. /\ q.since = sqlReq[r].since /\ q.snap = sqlReq[r].snap /\ q.pool = sqlReq[r].pool
      /\ q.roSince = sqlReq[r].roSince /\ q.ran = sqlReq[r].ran /\ q.login = sqlReq[r].login
  BY <1>1 DEF QueryRecords
<1>4. sqlReq' = [sqlReq EXCEPT ![r] = q]
  BY DEF Step
<1> HIDE DEF q
<1>5. QueryOK(q, sqlTarget, sqlSecret)
  BY <1>1, <1>2, <1>3 DEF QueryOK, Snapped, Keyed
<1> QED BY <1>2, <1>4, <1>5, QuerySteps

\* A request keeps to what was current when it arrived, at every step of its own.
LEMMA RequestKeepsSqlInv ==
    ASSUME SqlInv, NEW r \in SqlReqs, Arrives(r) \/ Request(r) \/ Cancelled(r)
    PROVE  SqlInv'
<1> DEFINE q0 == sqlReq[r]
<1>1. q0 \in QueryRecords /\ QueryOK(q0, sqlTarget, sqlSecret)
  BY DEF SqlInv
<1>2. sqlTarget \in TargetRows /\ sqlSecret \in Nat /\ pools \in [Logins -> PoolRecords]
  BY DEF SqlInv
<1>3. CASE Arrives(r)
  <2>1. PICK l \in Logins :
           sqlReq' = [sqlReq EXCEPT ![r] =
              [@ EXCEPT !.pc = "resolve", !.login = l, !.roSince = sqlTarget.readonly,
                        !.since = <<sqlTarget.ver, sqlSecret>>]]
    BY <1>3 DEF Arrives
  <2> DEFINE q == [q0 EXCEPT !.pc = "resolve", !.login = l, !.roSince = sqlTarget.readonly,
                             !.since = <<sqlTarget.ver, sqlSecret>>]
  <2>2. sqlTarget.ver \in Nat /\ sqlTarget.readonly \in BOOLEAN
    BY <1>2 DEF TargetRows
  <2>3. q \in QueryRecords
    BY <1>1, <1>2, <2>2 DEF QueryRecords
  <2>4. /\ q.pc = "resolve" /\ q.roSince = sqlTarget.readonly /\ q.ran = q0.ran
        /\ q.since[1] = sqlTarget.ver /\ q.since[2] = sqlSecret /\ q.login = l
    BY <1>1 DEF QueryRecords
  <2>5. q0.ran = FALSE
    BY <1>1, <1>3 DEF Arrives, At_, QueryOK, QueryRecords
  <2>6. sqlReq' = [sqlReq EXCEPT ![r] = q]
    BY <2>1
  <2> HIDE DEF q
  <2>7. QueryOK(q, sqlTarget, sqlSecret)
    BY <1>2, <2>2, <2>4, <2>5 DEF QueryOK, Snapped, Keyed
  <2> QED BY <1>2, <1>3, <2>3, <2>6, <2>7, QuerySteps DEF Arrives
<1>4. CASE common_auth_and_pool(r)
  <2>1. q0.pc = "resolve" /\ UNCHANGED <<sqlTarget, sqlSecret, pools>>
    BY <1>4 DEF common_auth_and_pool, At_
  <2>2. CASE OverReq(r)
    BY <2>1, <2>2, QueryEnds
  <2>3. CASE sqlReq' = [sqlReq EXCEPT ![r] = [@ EXCEPT !.pc = "account", !.snap = sqlTarget]]
    <3> DEFINE q == [q0 EXCEPT !.pc = "account", !.snap = sqlTarget]
    <3>1. q \in QueryRecords
      BY <1>1, <1>2 DEF QueryRecords
    <3>2. /\ q.pc = "account" /\ q.login = q0.login /\ q.roSince = q0.roSince
          /\ q.ran = q0.ran /\ q.since = q0.since
          /\ q.snap = sqlTarget
      BY <1>1 DEF QueryRecords
    <3>3. sqlReq' = [sqlReq EXCEPT ![r] = q]
      BY <2>3
    <3> HIDE DEF q
    <3>4. QueryOK(q, sqlTarget, sqlSecret)
      BY <1>1, <2>1, <3>2 DEF QueryOK, Snapped, Keyed
    <3> QED BY <1>2, <2>1, <3>1, <3>3, <3>4, QuerySteps
  <2> QED BY <1>4, <2>2, <2>3 DEF common_auth_and_pool
<1>5. CASE resolve_db_account(r)
  <2>1. q0.pc = "account" /\ UNCHANGED <<sqlTarget, sqlSecret, pools>>
    BY <1>5 DEF resolve_db_account, At_
  <2>2. CASE OverReq(r)
    BY <2>1, <2>2, QueryEnds
  <2>3. CASE ~OverReq(r)
    <3> DEFINE p == [by |-> "-", fp |-> <<q0.snap.ver, sqlSecret>>]
               q == [q0 EXCEPT !.pc = "lookup", !.pool = p]
    <3>1. q0.snap.ver \in Nat
      BY <1>1 DEF QueryRecords, TargetRows
    <3>2. p \in PoolRecords /\ p.fp[1] = q0.snap.ver /\ p.fp[2] = sqlSecret
      BY <1>2, <3>1 DEF PoolRecords
    <3>3. sqlReq' = [sqlReq EXCEPT ![r] = q]
      BY <1>5, <2>3 DEF resolve_db_account, compute_fingerprint
    <3> HIDE DEF p
    <3>4. q \in QueryRecords
      BY <1>1, <3>2 DEF QueryRecords
    <3>5. /\ q.pc = "lookup" /\ q.login = q0.login /\ q.roSince = q0.roSince
          /\ q.ran = q0.ran /\ q.since = q0.since
          /\ q.snap = q0.snap /\ q.pool = p
      BY <1>1 DEF QueryRecords
    <3> HIDE DEF q
    <3>6. QueryOK(q, sqlTarget, sqlSecret)
      BY <1>1, <2>1, <3>2, <3>5 DEF QueryOK, Snapped, Keyed
    <3> QED BY <1>2, <2>1, <3>3, <3>4, <3>6, QuerySteps
  <2> QED BY <2>2, <2>3
<1>6. CASE Lookup(r)
  <2> DEFINE cached == pools[q0.login]
  <2>1. q0.pc = "lookup" /\ UNCHANGED <<sqlTarget, sqlSecret, pools>>
    BY <1>6 DEF Lookup, At_
  <2>2. CASE IsHit(cached, q0.pool.fp)
    <3> DEFINE q == [q0 EXCEPT !.pc = "ready", !.pool = cached]
    <3>1. cached.fp = q0.pool.fp
      BY <2>2 DEF IsHit
    <3>2. sqlReq' = [sqlReq EXCEPT ![r] = q]
      BY <1>6, <2>2 DEF Lookup
    <3>3. cached \in PoolRecords
      BY <1>1, <1>2, <2>1 DEF QueryOK, Snapped, Keyed
    <3> HIDE DEF cached
    <3>4. q \in QueryRecords
      BY <1>1, <3>3 DEF QueryRecords
    <3>5. /\ q.pc = "ready" /\ q.login = q0.login /\ q.roSince = q0.roSince
          /\ q.ran = q0.ran /\ q.since = q0.since
          /\ q.snap = q0.snap /\ q.pool = cached
      BY <1>1 DEF QueryRecords
    <3> HIDE DEF q
    <3>6. QueryOK(q, sqlTarget, sqlSecret)
      BY <1>1, <2>1, <3>1, <3>5 DEF QueryOK, Snapped, Keyed
    <3> QED BY <1>2, <2>1, <3>2, <3>4, <3>6, QuerySteps
  <2>3. CASE ~IsHit(cached, q0.pool.fp)
    <3>1. Step(r, "build")
      BY <1>6, <2>3 DEF Lookup
    <3> QED BY <1>2, <2>1, <3>1, QueryGoesOn DEF Keyed
  <2> QED BY <2>2, <2>3
<1>7. CASE build_pool(r)
  <2>1. q0.pc = "build" /\ UNCHANGED <<sqlTarget, sqlSecret, pools>>
    BY <1>7 DEF build_pool, At_
  <2>2. CASE OverReq(r)
    BY <2>1, <2>2, QueryEnds
  <2>3. CASE ~OverReq(r)
    <3> DEFINE p == [q0.pool EXCEPT !.by = r]
               q == [q0 EXCEPT !.pc = "insert", !.pool = p]
    <3>1. q0.pool \in PoolRecords
      BY <1>1 DEF QueryRecords
    <3>2. p \in PoolRecords /\ p.fp = q0.pool.fp
      BY <3>1 DEF PoolRecords
    <3>3. sqlReq' = [sqlReq EXCEPT ![r] = q]
      BY <1>7, <2>3 DEF build_pool
    <3> HIDE DEF p
    <3>4. q \in QueryRecords
      BY <1>1, <3>2 DEF QueryRecords
    <3>5. /\ q.pc = "insert" /\ q.login = q0.login /\ q.roSince = q0.roSince
          /\ q.ran = q0.ran /\ q.since = q0.since
          /\ q.snap = q0.snap /\ q.pool = p
      BY <1>1 DEF QueryRecords
    <3> HIDE DEF q
    <3>6. QueryOK(q, sqlTarget, sqlSecret)
      BY <1>1, <2>1, <3>2, <3>5 DEF QueryOK, Snapped, Keyed
    <3> QED BY <1>2, <2>1, <3>3, <3>4, <3>6, QuerySteps
  <2> QED BY <2>2, <2>3
<1>8. CASE InsertPool(r)
  <2>1. q0.pc = "insert" /\ Step(r, "ready") /\ UNCHANGED <<sqlTarget, sqlSecret>>
    BY <1>8 DEF InsertPool, At_
  <2>2. q0.pool \in PoolRecords
    BY <1>1 DEF QueryRecords
  <2>3. pools' \in [Logins -> PoolRecords]
    BY <1>2, <1>8, <2>2 DEF InsertPool
  <2> QED BY <2>1, <2>3, QueryGoesOn DEF Keyed
<1>9. CASE Browse(r) \/ record_sql_console_request(r) \/ Cancelled(r)
  BY <1>9, QueryEnds DEF Browse, record_sql_console_request, Cancelled
<1>10. CASE api_db_query(r) \/ ensure_sql_console_group_session(r) \/ acquire(r)
  <2>1. /\ q0.pc \in Keyed /\ UNCHANGED <<sqlTarget, sqlSecret, pools>>
        /\ OverReq(r) \/ \E pc \in Keyed : Step(r, pc)
    BY <1>10 DEF api_db_query, ensure_sql_console_group_session, acquire, At_, Keyed
  <2> QED BY <1>2, <2>1, QueryEnds, QueryGoesOn
<1>11. CASE ValidateReadonly(r)
  <2>1. q0.pc = "validate" /\ UNCHANGED <<sqlTarget, sqlSecret, pools>>
    BY <1>11 DEF ValidateReadonly, At_
  <2>2. PICK sql \in Sqls :
           \/ OverReq(r)
           \/ sqlReq' = [sqlReq EXCEPT ![r] = [@ EXCEPT !.pc = "acquire", !.writes = Writes(sql)]]
    BY <1>11 DEF ValidateReadonly
  <2>3. CASE OverReq(r)
    BY <2>1, <2>3, QueryEnds
  <2>4. CASE ~OverReq(r)
    <3> DEFINE w == Writes(sql)
               q == [q0 EXCEPT !.pc = "acquire", !.writes = w]
    <3>1. w \in BOOLEAN
      BY DEF Writes
    <3>2. sqlReq' = [sqlReq EXCEPT ![r] = q]
      BY <2>2, <2>4
    <3> HIDE DEF w
    <3>3. q \in QueryRecords
      BY <1>1, <3>1 DEF QueryRecords
    <3>4. /\ q.pc = "acquire" /\ q.login = q0.login /\ q.roSince = q0.roSince
          /\ q.ran = q0.ran /\ q.since = q0.since
          /\ q.snap = q0.snap /\ q.pool = q0.pool
      BY <1>1 DEF QueryRecords
    <3> HIDE DEF q
    <3>5. QueryOK(q, sqlTarget, sqlSecret)
      BY <1>1, <2>1, <3>4 DEF QueryOK, Snapped, Keyed
    <3> QED BY <1>2, <2>1, <3>2, <3>3, <3>5, QuerySteps
  <2> QED BY <2>3, <2>4
<1>12. CASE run_query(r)
  <2>1. q0.pc = "run" /\ UNCHANGED <<sqlTarget, sqlSecret, pools>>
    BY <1>12 DEF run_query, At_
  <2>2. PICK executed \in BOOLEAN :
          sqlReq' = [sqlReq EXCEPT ![r] = [@ EXCEPT !.pc = "record",
                        !.ran = executed /\ sqlReq[r].writes /\ ~target_readonly(sqlReq[r].snap)]]
    BY <1>12 DEF run_query
  <2> DEFINE ran == executed /\ q0.writes /\ ~target_readonly(q0.snap)
             q == [q0 EXCEPT !.pc = "record", !.ran = ran]
  <2>3. ran \in BOOLEAN /\ (ran => ~q0.snap.readonly)
    BY DEF target_readonly
  <2>4. sqlReq' = [sqlReq EXCEPT ![r] = q]
    BY <2>2
  <2> HIDE DEF ran
  <2>5. q \in QueryRecords
    BY <1>1, <2>3 DEF QueryRecords
  <2>6. /\ q.pc = "record" /\ q.login = q0.login /\ q.roSince = q0.roSince
        /\ q.ran = ran /\ q.since = q0.since
        /\ q.snap = q0.snap
    BY <1>1 DEF QueryRecords
  <2> HIDE DEF q
  <2>7. QueryOK(q, sqlTarget, sqlSecret)
    BY <1>1, <2>1, <2>3, <2>6 DEF QueryOK, Snapped, Keyed
  <2> QED BY <1>2, <2>1, <2>4, <2>5, <2>7, QuerySteps
<1> QED
  BY <1>3, <1>4, <1>5, <1>6, <1>7, <1>8, <1>9, <1>10, <1>11, <1>12 DEF Request

\* What others do to the pools and to the target makes nothing a request has read newer than
\* it is: rows only grow, and a pool that is closed keeps its fingerprint.
LEMMA OthersKeepSqlInv ==
    ASSUME SqlInv,
           \/ \E p \in SqlReqs : PoolCloses(p)
           \/ UpdateTarget \/ invalidate \/ UpdateAccount \/ clear_all
    PROVE  SqlInv'
<1>1. /\ sqlTarget \in TargetRows /\ sqlSecret \in Nat /\ pools \in [Logins -> PoolRecords]
      /\ \A r \in SqlReqs : sqlReq[r] \in QueryRecords
  BY DEF SqlInv
<1>2. ASSUME NEW p \in SqlReqs, PoolCloses(p) PROVE SqlInv'
  <2>1. ASSUME NEW r \in SqlReqs
        PROVE  sqlReq'[r] \in QueryRecords /\ QueryOK(sqlReq'[r], sqlTarget, sqlSecret)
    <3> DEFINE q0 == sqlReq[r]
               n == [q0.pool EXCEPT !.by = "closed"]
               q == [q0 EXCEPT !.pool = n]
    <3>1. q0 \in QueryRecords /\ q0.pool \in PoolRecords /\ QueryOK(q0, sqlTarget, sqlSecret)
      BY <1>1 DEF QueryRecords, SqlInv
    <3>2. n \in PoolRecords /\ n.fp = q0.pool.fp
      BY <3>1 DEF PoolRecords
    <3>3. sqlReq'[r] = q \/ sqlReq'[r] = q0
      BY <1>2 DEF PoolCloses
    <3> HIDE DEF n
    <3>4. q \in QueryRecords
      BY <3>1, <3>2 DEF QueryRecords
    <3>5. /\ q.pc = q0.pc /\ q.login = q0.login /\ q.roSince = q0.roSince
          /\ q.ran = q0.ran /\ q.since = q0.since
          /\ q.snap = q0.snap /\ q.pool = n
      BY <3>1 DEF QueryRecords
    <3> HIDE DEF q
    <3>6. QueryOK(q, sqlTarget, sqlSecret)
      BY <3>1, <3>2, <3>5 DEF QueryOK
    <3> QED BY <3>1, <3>3, <3>4, <3>6
  <2>2. UNCHANGED <<sqlTarget, sqlSecret, pools>>
    BY <1>2 DEF PoolCloses
  <2>3. sqlReq' \in [SqlReqs -> QueryRecords]
    BY <1>2, <2>1 DEF PoolCloses
  <2> QED BY <1>1, <2>1, <2>2, <2>3 DEF SqlInv
<1>3. ASSUME UpdateTarget PROVE SqlInv'
  <2>1. PICK ro \in BOOLEAN : sqlTarget' = [ver |-> sqlTarget.ver + 1, readonly |-> ro]
    BY <1>3 DEF UpdateTarget
  <2>2. sqlTarget.ver \in Nat
    BY <1>1 DEF TargetRows
  <2>3. sqlTarget' \in TargetRows /\ sqlTarget'.ver = sqlTarget.ver + 1
    BY <2>1, <2>2 DEF TargetRows
  <2>4. ASSUME NEW r \in SqlReqs PROVE QueryOK(sqlReq[r], sqlTarget', sqlSecret)
    <3>1. sqlReq[r].since[1] \in Nat /\ QueryOK(sqlReq[r], sqlTarget, sqlSecret)
      BY <1>1 DEF SqlInv, QueryRecords
    <3> QED BY <2>2, <2>3, <3>1 DEF QueryOK
  <2> QED BY <1>1, <1>3, <2>3, <2>4 DEF SqlInv, UpdateTarget
<1>4. ASSUME UpdateAccount PROVE SqlInv'
  <2>1. sqlSecret' = sqlSecret + 1 /\ UNCHANGED <<sqlTarget, pools, sqlReq>>
    BY <1>4 DEF UpdateAccount
  <2>2. ASSUME NEW r \in SqlReqs PROVE QueryOK(sqlReq[r], sqlTarget, sqlSecret')
    <3>1. sqlReq[r].since[2] \in Nat /\ QueryOK(sqlReq[r], sqlTarget, sqlSecret)
      BY <1>1 DEF SqlInv, QueryRecords
    <3> QED BY <1>1, <2>1, <3>1 DEF QueryOK
  <2> QED BY <1>1, <2>1, <2>2 DEF SqlInv
<1>5. ASSUME invalidate \/ clear_all PROVE SqlInv'
  <2>1. NoPool \in PoolRecords
    BY DEF NoPool, PoolRecords
  <2>2. /\ UNCHANGED <<sqlTarget, sqlSecret, sqlReq>>
        /\ pools' = [l \in Logins |-> NoPool]
    BY <1>5 DEF invalidate, clear_all
  <2> QED BY <2>1, <2>2 DEF SqlInv
<1> QED BY <1>2, <1>3, <1>4, <1>5

\* Every step of the console keeps its requests to what was current when they arrived.
LEMMA NextKeepsSqlInv == SqlInv /\ [SqlNext]_sqlVars => SqlInv'
<1> SUFFICES ASSUME SqlInv, [SqlNext]_sqlVars PROVE SqlInv'
  OBVIOUS
<1>1. CASE UNCHANGED sqlVars
  BY <1>1 DEF sqlVars, SqlInv
<1>2. CASE SqlNext
  BY <1>2, RequestKeepsSqlInv, OthersKeepSqlInv DEF SqlNext
<1> QED BY <1>1, <1>2

\* No request and no pool before the first one arrives.
LEMMA InitSqlInv == SqlInit => SqlInv
<1> SUFFICES ASSUME SqlInit PROVE SqlInv
  OBVIOUS
<1>1. NoPool \in PoolRecords /\ sqlTarget \in TargetRows
  BY DEF SqlInit, NoPool, PoolRecords, TargetRows
<1>2. NoQuery \in QueryRecords /\ NoQuery.pc = "none" /\ NoQuery.ran = FALSE
  BY DEF NoQuery, NoPool, QueryRecords, PoolRecords, TargetRows
<1>3. QueryOK(NoQuery, sqlTarget, sqlSecret)
  BY <1>2 DEF QueryOK, Snapped, Keyed
<1> QED BY <1>1, <1>2, <1>3 DEF SqlInit, SqlInv

\* A request of the SQL console that arrived after an edit of the target or of the account was
\* written works on a pool built from what was written, or from something newer, whatever the
\* cache holds and whoever puts an older pool back (DbPoolRegistry::get_or_create).
THEOREM SqlFreshOptions == SqlSpec => []FreshOptions
<1>1. SqlInv => FreshOptions
  BY DEF SqlInv, FreshOptions, QueryOK, Keyed
<1> QED BY <1>1, InitSqlInv, NextKeepsSqlInv, PTL DEF SqlSpec

\* A request that arrives once a target is read-only writes nothing, whatever it sends and
\* whichever pool it gets, unless the target is edited while it runs (api_db_query).
THEOREM SqlReadonlyHolds == SqlSpec => []ReadonlyHolds
<1>1. SqlInv => ReadonlyHolds
  BY DEF SqlInv, ReadonlyHolds, QueryOK, Snapped
<1> QED BY <1>1, InitSqlInv, NextKeepsSqlInv, PTL DEF SqlSpec

-----------------------------------------------------------------------------
(* The file manager: whose connection a request uses. *)

FileRequests ==
    [pc : {"idle", "lookup", "open", "connect", "handshake", "insert", "call", "audit", "over"},
     key : FileKeys \cup {"-"}, op : Ops \cup {"-"}, conn : ConnIds \cup {0}]

Connections ==
    [key : FileKeys \cup {"-"}, row : {"none", "active", "ended"}, up : BOOLEAN,
     pump : {"none", "run", "dropping", "ended"}, close : BOOLEAN, asked : BOOLEAN]

\* Among the connections cs, c was opened for key k.
For(cs, c, k) == c \in ConnIds /\ cs[c].row # "none" /\ cs[c].key = k

\* The steps of a request that has a connection, and the ones that know their key.
Using == {"connect", "handshake", "insert", "call", "audit"}
Started == Using \cup {"lookup", "open"}

\* A request works on a connection that was opened for its own user, target and account,
\* whichever request opened it and whoever won the race for the map (connection).
OwnConnection == \A r \in FileReqs : freq[r].pc \in Using => For(conns, freq[r].conn, freq[r].key)

FilesInv == /\ fileOps \in [FileReqs -> SUBSET Ops]
            /\ freq \in [FileReqs -> FileRequests]
            /\ conns \in [ConnIds -> Connections]
            /\ cache \in [FileKeys -> ConnIds \cup {0}]
            /\ \A k \in FileKeys : cache[k] # 0 => For(conns, cache[k], k)
            /\ \A r \in FileReqs : freq[r].pc \in Started => freq[r].key \in FileKeys
            /\ OwnConnection

\* A step of the connections that forgets none and gives none to another key.
Grown(new) == /\ new \in [ConnIds -> Connections]
              /\ \A c \in ConnIds : conns[c].row # "none" =>
                    new[c].row # "none" /\ new[c].key = conns[c].key

\* Connections that only change in what happens to them are the same connections.
LEMMA GrownUpdate ==
    ASSUME FilesInv, NEW c \in ConnIds, NEW n \in Connections, n.key = conns[c].key,
           n.row = conns[c].row \/ n.row # "none"
    PROVE  Grown([conns EXCEPT ![c] = n])
BY DEF FilesInv, Grown

\* A request to close a connection, and a failed operation, leave every connection to its key.
LEMMA GrownNotify ==
    ASSUME FilesInv, NEW c \in ConnIds
    PROVE  /\ Grown(conns) /\ Grown(notify_one(conns, c))
           /\ \A o : Grown(call(conns, c, o))
<1> DEFINE n == [conns[c] EXCEPT !.close = TRUE]
<1>1. conns[c] \in Connections
  BY DEF FilesInv
<1>2. n \in Connections /\ n.key = conns[c].key /\ n.row = conns[c].row
  BY <1>1 DEF Connections
<1>3. notify_one(conns, c) = [conns EXCEPT ![c] = n]
  BY DEF notify_one
<1> HIDE DEF n
<1>4. Grown(notify_one(conns, c))
  BY <1>2, <1>3, GrownUpdate
<1>5. Grown(conns)
  BY DEF Grown, FilesInv
<1> QED BY <1>4, <1>5 DEF call

\* A step of request r that leaves the map alone and goes on with its own connection, or with
\* one that was opened for its key.
LEMMA RequestSteps ==
    ASSUME FilesInv, NEW r \in FileReqs, NEW q \in FileRequests, freq' = [freq EXCEPT ![r] = q],
           Grown(conns'), UNCHANGED <<fileOps, cache>>,
           q.pc \in Started => q.key \in FileKeys,
           q.pc \in Using => \/ /\ freq[r].pc \in Using
                                /\ q.conn = freq[r].conn /\ q.key = freq[r].key
                             \/ For(conns', q.conn, q.key)
    PROVE  FilesInv'
<1>1. ASSUME NEW c, NEW k, For(conns, c, k) PROVE For(conns', c, k)
  BY <1>1 DEF For, Grown
<1>2. freq'[r] = q /\ \A s \in FileReqs \ {r} : freq'[s] = freq[s]
  BY DEF FilesInv
<1>3. ASSUME NEW s \in FileReqs, freq'[s].pc \in Using
      PROVE  For(conns', freq'[s].conn, freq'[s].key)
  <2>1. CASE s # r
    <3>1. For(conns, freq[s].conn, freq[s].key)
      BY <1>2, <1>3, <2>1 DEF FilesInv, OwnConnection
    <3> QED BY <1>1, <1>2, <2>1, <3>1
  <2>2. CASE s = r /\ freq[r].pc \in Using /\ q.conn = freq[r].conn /\ q.key = freq[r].key
    <3>1. For(conns, q.conn, q.key)
      BY <2>2 DEF FilesInv, OwnConnection
    <3> QED BY <1>1, <1>2, <2>2, <3>1
  <2>3. CASE s = r /\ For(conns', q.conn, q.key)
    BY <1>2, <2>3
  <2> QED BY <1>2, <1>3, <2>1, <2>2, <2>3
<1>4. OwnConnection'
  BY <1>3 DEF OwnConnection
<1>5. ASSUME NEW k \in FileKeys, cache'[k] # 0 PROVE For(conns', cache'[k], k)
  <2>1. For(conns, cache[k], k) /\ cache'[k] = cache[k]
    BY <1>5 DEF FilesInv
  <2> QED BY <1>1, <2>1
<1>6. \A s \in FileReqs : freq'[s].pc \in Started => freq'[s].key \in FileKeys
  BY <1>2 DEF FilesInv
<1>7. fileOps' \in [FileReqs -> SUBSET Ops] /\ freq' \in [FileReqs -> FileRequests]
      /\ conns' \in [ConnIds -> Connections] /\ cache' \in [FileKeys -> ConnIds \cup {0}]
  BY DEF FilesInv, Grown
<1> QED BY <1>4, <1>5, <1>6, <1>7 DEF FilesInv

\* A request that is answered, and one that goes on.
LEMMA RequestRecords ==
    /\ Over \in FileRequests /\ Over.pc = "over"
    /\ \A q \in FileRequests, pc \in Started \cup {"over"} :
          LET n == [q EXCEPT !.pc = pc] IN
          n \in FileRequests /\ n.pc = pc /\ n.key = q.key /\ n.conn = q.conn
BY DEF Over, NoRequest, FileRequests, Started, Using

\* A request that is answered leaves no trace in its own state.
LEMMA RequestEnds ==
    ASSUME FilesInv, NEW r \in FileReqs, freq' = [freq EXCEPT ![r] = Over], Grown(conns'),
           UNCHANGED <<fileOps, cache>>
    PROVE  FilesInv'
BY RequestRecords, RequestSteps DEF Started, Using

\* A request that has its connection goes on with it.
LEMMA RequestGoesOn ==
    ASSUME FilesInv, NEW r \in FileReqs, freq[r].pc \in Using, NEW pc \in Using,
           freq' = [freq EXCEPT ![r].pc = pc], Grown(conns'), UNCHANGED <<fileOps, cache>>
    PROVE  FilesInv'
<1> DEFINE q == [freq[r] EXCEPT !.pc = pc]
<1>1. freq[r] \in FileRequests /\ freq[r].key \in FileKeys
  BY DEF FilesInv, Started
<1>2. q \in FileRequests /\ q.key = freq[r].key /\ q.conn = freq[r].conn
  BY <1>1, RequestRecords DEF Started
<1>3. freq' = [freq EXCEPT ![r] = q]
  OBVIOUS
<1> HIDE DEF q
<1> QED BY <1>1, <1>2, <1>3, RequestSteps

\* A request has at most the connection that was opened for it, or that it found in the map.
LEMMA ServeKeepsFilesInv ==
    ASSUME FilesInv, NEW r \in FileReqs, authorize(r) \/ Serve(r) \/ Cancel(r)
    PROVE  FilesInv'
<1> DEFINE c == freq[r].conn
<1>1. freq[r] \in FileRequests /\ (freq[r].pc \in Started => freq[r].key \in FileKeys)
  BY DEF FilesInv
<1>2. freq[r].pc \in Using => For(conns, c, freq[r].key)
  BY DEF FilesInv, OwnConnection
<1>3. Grown(conns)
  BY DEF Grown, FilesInv
<1>4. freq[r].pc \in Using =>
         /\ c \in ConnIds /\ Grown(notify_one(conns, c)) /\ \A o : Grown(call(conns, c, o))
  BY <1>2, GrownNotify DEF For
<1>5. CASE authorize(r)
  <2>1. PICK k \in FileKeys, op \in fileOps[r] :
           freq' = [freq EXCEPT ![r] = [NoRequest EXCEPT !.pc = "lookup", !.key = k, !.op = op]]
    BY <1>5 DEF authorize
  <2> DEFINE q == [NoRequest EXCEPT !.pc = "lookup", !.key = k, !.op = op]
  <2>2. op \in Ops
    BY DEF FilesInv
  <2>3. q \in FileRequests /\ q.pc = "lookup" /\ q.key = k
    BY <2>2 DEF NoRequest, FileRequests
  <2>4. Grown(conns') /\ UNCHANGED <<fileOps, cache>> /\ freq' = [freq EXCEPT ![r] = q]
    BY <1>3, <1>5, <2>1 DEF authorize
  <2> HIDE DEF q
  <2> QED BY <2>3, <2>4, RequestSteps DEF Using
<1>6. CASE Refused(r)
  BY <1>3, <1>6, RequestEnds DEF Refused
<1>7. CASE connection(r)
  <2> DEFINE k == freq[r].key
  <2>1. k \in FileKeys /\ UNCHANGED <<fileOps, cache, conns>> /\ Grown(conns')
    BY <1>1, <1>3, <1>7 DEF connection, Started
  <2>2. \/ freq' = [freq EXCEPT ![r] = Over]
        \/ freq' = [freq EXCEPT ![r] = [freq[r] EXCEPT !.pc = "open"]]
        \/ /\ cache[k] # 0
           /\ freq' = [freq EXCEPT ![r] = [freq[r] EXCEPT !.pc = "call", !.conn = cache[k]]]
    BY <1>7 DEF connection
  <2>3. CASE freq' = [freq EXCEPT ![r] = Over]
    BY <2>1, <2>3, RequestEnds
  <2>4. CASE freq' = [freq EXCEPT ![r] = [freq[r] EXCEPT !.pc = "open"]]
    <3> DEFINE q == [freq[r] EXCEPT !.pc = "open"]
    <3>1. q \in FileRequests /\ q.pc = "open" /\ q.key = k
      BY <1>1 DEF FileRequests
    <3> HIDE DEF q
    <3> QED BY <2>1, <2>4, <3>1, RequestSteps DEF q, Using
  <2>5. CASE /\ cache[k] # 0
             /\ freq' = [freq EXCEPT ![r] = [freq[r] EXCEPT !.pc = "call", !.conn = cache[k]]]
    <3> DEFINE q == [freq[r] EXCEPT !.pc = "call", !.conn = cache[k]]
    <3>1. For(conns, cache[k], k)
      BY <2>1, <2>5 DEF FilesInv
    <3>2. q \in FileRequests /\ q.key = k /\ q.conn = cache[k]
      BY <1>1, <3>1 DEF For, FileRequests
    <3>3. freq' = [freq EXCEPT ![r] = q]
      BY <2>5
    <3> HIDE DEF q
    <3> QED BY <2>1, <3>1, <3>2, <3>3, RequestSteps
  <2> QED BY <2>2, <2>3, <2>4, <2>5
<1>8. CASE open_connection(r)
  <2>1. PICK d \in Unused :
           /\ conns' = [conns EXCEPT ![d] = [@ EXCEPT !.key = freq[r].key, !.row = "active"]]
           /\ freq' = [freq EXCEPT ![r] = [@ EXCEPT !.pc = "connect", !.conn = d]]
    BY <1>8 DEF open_connection
  <2> DEFINE n == [conns[d] EXCEPT !.key = freq[r].key, !.row = "active"]
             q == [freq[r] EXCEPT !.pc = "connect", !.conn = d]
  <2>2. d \in ConnIds /\ conns[d].row = "none" /\ conns[d] \in Connections
    BY DEF Unused, FilesInv
  <2>3. n \in Connections /\ n.key = freq[r].key /\ n.row = "active"
    BY <1>1, <2>2 DEF Connections, FileRequests
  <2>4. q \in FileRequests /\ q.key = freq[r].key /\ q.conn = d
    BY <1>1, <2>2 DEF FileRequests
  <2>5. conns' = [conns EXCEPT ![d] = n] /\ freq' = [freq EXCEPT ![r] = q]
    BY <2>1
  <2> HIDE DEF n, q
  <2>6. Grown(conns') /\ For(conns', d, freq[r].key)
    BY <2>2, <2>3, <2>5 DEF Grown, For, FilesInv
  <2>7. freq[r].key \in FileKeys /\ UNCHANGED <<fileOps, cache>>
    BY <1>1, <1>8 DEF open_connection, Started
  <2> QED BY <2>4, <2>5, <2>6, <2>7, RequestSteps
<1>9. CASE ConnectRefused(r)
  <2> DEFINE n == [conns[c] EXCEPT !.row = "ended"]
  <2>1. c \in ConnIds /\ conns[c] \in Connections
    BY <1>4, <1>9 DEF ConnectRefused, Using, FilesInv
  <2>2. n \in Connections /\ n.key = conns[c].key /\ n.row = "ended"
    BY <2>1 DEF Connections
  <2>3. conns' = [conns EXCEPT ![c] = n]
    BY <1>9 DEF ConnectRefused
  <2> HIDE DEF n
  <2>4. Grown(conns')
    BY <2>1, <2>2, <2>3, GrownUpdate
  <2> QED BY <1>9, <2>4, RequestEnds DEF ConnectRefused
<1>10. CASE connect_and_open_sftp(r)
  <2> DEFINE n == [conns[c] EXCEPT !.up = TRUE, !.pump = "run"]
  <2>1. c \in ConnIds /\ conns[c] \in Connections
    BY <1>4, <1>10 DEF connect_and_open_sftp, Using, FilesInv
  <2>2. n \in Connections /\ n.key = conns[c].key /\ n.row = conns[c].row
    BY <2>1 DEF Connections
  <2>3. conns' = [conns EXCEPT ![c] = n]
    BY <1>10 DEF connect_and_open_sftp
  <2> HIDE DEF n
  <2>4. Grown(conns')
    BY <2>1, <2>2, <2>3, GrownUpdate
  <2> QED BY <1>10, <2>4, RequestGoesOn DEF connect_and_open_sftp, Using
<1>11. CASE Handshake(r)
  <2>1. freq[r].pc \in Using /\ UNCHANGED <<fileOps, cache>>
    BY <1>11 DEF Handshake, Using
  <2>2. \/ freq' = [freq EXCEPT ![r].pc = "insert"] /\ conns' = conns
        \/ freq' = [freq EXCEPT ![r] = Over] /\ conns' = notify_one(conns, c)
    BY <1>11 DEF Handshake
  <2>3. Grown(conns')
    BY <1>3, <1>4, <2>1, <2>2
  <2>4. "insert" \in Using
    BY DEF Using
  <2> QED BY <2>1, <2>2, <2>3, <2>4, RequestGoesOn, RequestEnds
<1>12. CASE Insert(r)
  <2> DEFINE k == freq[r].key
  <2>1. freq[r].pc \in Using /\ k \in FileKeys /\ UNCHANGED fileOps
    BY <1>1, <1>12 DEF Insert, Using, Started
  <2>2. CASE cache[k] # 0
    <3> DEFINE q == [freq[r] EXCEPT !.pc = "call", !.conn = cache[k]]
    <3>1. For(conns, cache[k], k)
      BY <2>1, <2>2 DEF FilesInv
    <3>2. q \in FileRequests /\ q.key = k /\ q.conn = cache[k]
      BY <1>1, <3>1 DEF For, FileRequests
    <3>3. /\ freq' = [freq EXCEPT ![r] = q] /\ UNCHANGED <<fileOps, cache>>
          /\ conns' = notify_one(conns, c)
      BY <1>12, <2>2 DEF Insert
    <3> HIDE DEF q
    <3>4. Grown(conns')
      BY <1>4, <2>1, <3>3
    <3>5. For(conns', cache[k], k)
      BY <3>1, <3>4 DEF For, Grown
    <3> QED BY <2>1, <3>2, <3>3, <3>4, <3>5, RequestSteps
  <2>3. CASE cache[k] = 0
    <3> DEFINE q == [freq[r] EXCEPT !.pc = "call"]
    <3>1. q \in FileRequests /\ q.key = k /\ q.conn = c /\ q.pc = "call"
      BY <1>1 DEF FileRequests
    <3>2. /\ freq' = [freq EXCEPT ![r] = q] /\ UNCHANGED <<fileOps, conns>>
          /\ cache' = [cache EXCEPT ![k] = c]
      BY <1>12, <2>3 DEF Insert
    <3> HIDE DEF q
    <3>3. For(conns, c, k)
      BY <1>2, <2>1
    <3>4. OwnConnection'
      BY <3>1, <3>2, <3>3 DEF OwnConnection, FilesInv
    <3>5. \A j \in FileKeys : cache'[j] # 0 => For(conns', cache'[j], j)
      BY <2>1, <3>2, <3>3 DEF FilesInv
    <3>6. \A s \in FileReqs : freq'[s].pc \in Started => freq'[s].key \in FileKeys
      BY <2>1, <3>1, <3>2 DEF FilesInv
    <3>7. /\ freq' \in [FileReqs -> FileRequests] /\ fileOps' \in [FileReqs -> SUBSET Ops]
          /\ conns' \in [ConnIds -> Connections] /\ cache' \in [FileKeys -> ConnIds \cup {0}]
      BY <3>1, <3>2, <3>3 DEF FilesInv, For
    <3> QED BY <3>4, <3>5, <3>6, <3>7 DEF FilesInv
  <2> QED BY <2>2, <2>3
<1>13. CASE api_sftp_list(r) \/ download(r)
  <2>1. PICK o : conns' = call(conns, c, o)
    BY <1>13 DEF api_sftp_list, download
  <2>2. freq[r].pc \in Using /\ freq' = [freq EXCEPT ![r] = Over] /\ UNCHANGED <<fileOps, cache>>
    BY <1>13 DEF api_sftp_list, download, Using
  <2> QED BY <1>4, <2>1, <2>2, RequestEnds
<1>14. CASE api_sftp_mkdir(r) \/ api_sftp_rename(r) \/ api_sftp_remove(r) \/ upload(r)
  <2>1. freq[r].pc \in Using /\ "audit" \in Using /\ UNCHANGED <<fileOps, cache>>
    BY <1>14 DEF api_sftp_mkdir, api_sftp_rename, api_sftp_remove, Mutates, upload, Using
  <2>2. \/ freq' = [freq EXCEPT ![r] = Over] /\ conns' = conns
        \/ freq' = [freq EXCEPT ![r].pc = "audit"] /\ \E o : conns' = call(conns, c, o)
    BY <1>14 DEF api_sftp_mkdir, api_sftp_rename, api_sftp_remove, Mutates, upload
  <2> QED BY <1>3, <1>4, <2>1, <2>2, RequestEnds, RequestGoesOn
<1>15. CASE audited(r)
  BY <1>3, <1>15, RequestEnds DEF audited
<1>16. CASE Cancel(r)
  <2> DEFINE n == [conns[c] EXCEPT !.row = "ended", !.up = TRUE]
  <2>1. CASE freq[r].pc = "connect"
    <3>1. c \in ConnIds /\ conns[c] \in Connections
      BY <1>4, <2>1 DEF Using, FilesInv
    <3>2. n \in Connections /\ n.key = conns[c].key /\ n.row = "ended"
      BY <3>1 DEF Connections
    <3>3. conns' = [conns EXCEPT ![c] = n]
      BY <1>16, <2>1 DEF Cancel
    <3> HIDE DEF n
    <3>4. Grown(conns')
      BY <3>1, <3>2, <3>3, GrownUpdate
    <3> QED BY <1>16, <3>4, RequestEnds DEF Cancel
  <2>2. CASE freq[r].pc # "connect"
    BY <1>3, <1>16, <2>2, RequestEnds DEF Cancel
  <2> QED BY <2>1, <2>2
<1> QED
  BY <1>5, <1>6, <1>7, <1>8, <1>9, <1>10, <1>11, <1>12, <1>13, <1>14, <1>15, <1>16 DEF Serve

\* A step that no request takes: the connections may move on, the map may lose entries.
LEMMA OthersKeepFilesInv ==
    ASSUME FilesInv, Grown(conns'), UNCHANGED <<fileOps, freq>>,
           cache' \in [FileKeys -> ConnIds \cup {0}],
           \A k \in FileKeys : cache'[k] \in {0, cache[k]}
    PROVE  FilesInv'
<1>1. ASSUME NEW c, NEW k, For(conns, c, k) PROVE For(conns', c, k)
  BY <1>1 DEF For, Grown
<1>2. OwnConnection'
  BY <1>1 DEF OwnConnection, FilesInv
<1>3. \A k \in FileKeys : cache'[k] # 0 => For(conns', cache'[k], k)
  BY <1>1 DEF FilesInv
<1> QED BY <1>2, <1>3 DEF FilesInv, Grown

\* The pumps, the administrator and the spawned downloads move no connection to another key.
LEMMA PumpsKeepFilesInv ==
    ASSUME FilesInv,
           \/ \E c \in ConnIds : pump(c) \/ PumpEnds(c) \/ CloseFiles(c)
           \/ Transferred
    PROVE  FilesInv'
<1>1. ASSUME NEW c \in ConnIds, pump(c) PROVE FilesInv'
  <2> DEFINE n == [conns[c] EXCEPT !.pump = "dropping", !.up = FALSE, !.close = FALSE]
  <2>1. conns[c] \in Connections
    BY DEF FilesInv
  <2>2. n \in Connections /\ n.key = conns[c].key /\ n.row = conns[c].row
    BY <2>1 DEF Connections
  <2>3. conns' = [conns EXCEPT ![c] = n] /\ UNCHANGED <<fileOps, freq, cache>>
    BY <1>1 DEF pump
  <2> HIDE DEF n
  <2>4. Grown(conns')
    BY <2>2, <2>3, GrownUpdate
  <2> QED BY <2>3, <2>4, OthersKeepFilesInv DEF FilesInv
<1>2. ASSUME NEW c \in ConnIds, PumpEnds(c) PROVE FilesInv'
  <2> DEFINE n == [conns[c] EXCEPT !.pump = "ended", !.row = "ended"]
  <2>1. conns[c] \in Connections
    BY DEF FilesInv
  <2>2. n \in Connections /\ n.key = conns[c].key /\ n.row = "ended"
    BY <2>1 DEF Connections
  <2>3. /\ conns' = [conns EXCEPT ![c] = n] /\ UNCHANGED <<fileOps, freq>>
        /\ cache' = [k \in FileKeys |-> IF k = conns[c].key /\ cache[k] = c THEN 0 ELSE cache[k]]
    BY <1>2 DEF PumpEnds, drop_connection
  <2> HIDE DEF n
  <2>4. Grown(conns')
    BY <2>2, <2>3, GrownUpdate
  <2>5. /\ cache' \in [FileKeys -> ConnIds \cup {0}]
        /\ \A k \in FileKeys : cache'[k] \in {0, cache[k]}
    BY <2>3 DEF FilesInv
  <2> QED BY <2>3, <2>4, <2>5, OthersKeepFilesInv
<1>3. ASSUME NEW c \in ConnIds, CloseFiles(c) PROVE FilesInv'
  <2> DEFINE n == [conns[c] EXCEPT !.asked = TRUE, !.close = TRUE]
  <2>1. conns[c] \in Connections
    BY DEF FilesInv
  <2>2. n \in Connections /\ n.key = conns[c].key /\ n.row = conns[c].row
    BY <2>1 DEF Connections
  <2>3. conns' = [conns EXCEPT ![c] = n] /\ UNCHANGED <<fileOps, freq, cache>>
    BY <1>3 DEF CloseFiles, notify_one, FilesInv
  <2> HIDE DEF n
  <2>4. Grown(conns')
    BY <2>2, <2>3, GrownUpdate
  <2> QED BY <2>3, <2>4, OthersKeepFilesInv DEF FilesInv
<1>4. ASSUME Transferred PROVE FilesInv'
  <2>1. UNCHANGED <<fileOps, freq, conns, cache>>
    BY <1>4 DEF Transferred
  <2> QED BY <2>1 DEF FilesInv, OwnConnection
<1> QED BY <1>1, <1>2, <1>3, <1>4

\* Every step of the file manager keeps each connection with its key.
LEMMA NextKeepsFilesInv == FilesInv /\ [FilesNext]_fileVars => FilesInv'
<1> SUFFICES ASSUME FilesInv, [FilesNext]_fileVars PROVE FilesInv'
  OBVIOUS
<1>1. CASE UNCHANGED fileVars
  BY <1>1 DEF fileVars, FilesInv, OwnConnection
<1>2. CASE FilesNext
  BY <1>2, ServeKeepsFilesInv, PumpsKeepFilesInv DEF FilesNext
<1> QED BY <1>1, <1>2

\* There is no connection before the first request.
LEMMA InitFilesInv == FilesInit => FilesInv
<1> SUFFICES ASSUME FilesInit PROVE FilesInv
  OBVIOUS
<1>1. NoRequest \in FileRequests /\ NoRequest.pc = "idle"
  BY DEF NoRequest, FileRequests
<1>2. [key |-> "-", row |-> "none", up |-> FALSE, pump |-> "none", close |-> FALSE,
       asked |-> FALSE] \in Connections
  BY DEF Connections
<1>3. freq \in [FileReqs -> FileRequests] /\ \A r \in FileReqs : freq[r].pc = "idle"
  BY <1>1 DEF FilesInit
<1>4. conns \in [ConnIds -> Connections]
  BY <1>2 DEF FilesInit
<1>5. OwnConnection /\ \A r \in FileReqs : freq[r].pc \in Started => freq[r].key \in FileKeys
  BY <1>3 DEF OwnConnection, Using, Started
<1> QED BY <1>3, <1>4, <1>5 DEF FilesInit, FilesInv

\* A request of the file manager works on a connection that was opened for its own user,
\* target and account, whoever opened it, lost or won the race for the CONNECTIONS map
\* (connection, drop_connection).
THEOREM FilesOwnConnection == FilesSpec => []OwnConnection
<1>1. FilesInv => OwnConnection
  BY DEF FilesInv
<1> QED BY <1>1, InitFilesInv, NextKeepsFilesInv, PTL DEF FilesSpec

\* A connection leaves the map only by its own pump, once that has taken it down: no other
\* connection that ends, and no request, evicts it (drop_connection).
THEOREM FilesOwnPumpDrops == FilesSpec => OwnPumpDrops
<1> DEFINE Kept == \A k \in FileKeys : cache[k] # 0 /\ cache'[k] # cache[k]
                      => conns[cache[k]].pump = "dropping"
<1>1. FilesInv /\ [FilesNext]_fileVars => [Kept]_fileVars
  <2> SUFFICES ASSUME FilesInv, FilesNext, NEW k \in FileKeys, cache[k] # 0, cache'[k] # cache[k]
               PROVE  conns[cache[k]].pump = "dropping"
    BY DEF fileVars
  <2>1. ASSUME NEW r \in FileReqs, Insert(r) PROVE FALSE
    <3>1. \/ cache' = cache
          \/ /\ cache[freq[r].key] = 0
             /\ cache' = [cache EXCEPT ![freq[r].key] = freq[r].conn]
      BY <2>1 DEF Insert
    <3> QED BY <3>1 DEF FilesInv
  <2>2. ASSUME NEW r \in FileReqs, authorize(r) \/ Cancel(r) \/ (Serve(r) /\ ~Insert(r)) PROVE FALSE
    BY <2>2 DEF authorize, Cancel, Serve, Refused, connection, open_connection, ConnectRefused,
                connect_and_open_sftp, Handshake, api_sftp_list, api_sftp_mkdir, api_sftp_rename,
                api_sftp_remove, Mutates, upload, download, audited
  <2>3. ASSUME NEW c \in ConnIds, pump(c) \/ CloseFiles(c) PROVE FALSE
    BY <2>3 DEF pump, CloseFiles
  <2>4. ~Transferred
    BY DEF Transferred
  <2>5. ASSUME NEW c \in ConnIds, PumpEnds(c) PROVE conns[cache[k]].pump = "dropping"
    BY <2>5 DEF PumpEnds, drop_connection
  <2> QED BY <2>1, <2>2, <2>3, <2>4, <2>5 DEF FilesNext
<1> QED BY <1>1, InitFilesInv, NextKeepsFilesInv, PTL DEF FilesSpec, OwnPumpDrops

-----------------------------------------------------------------------------
\* The checked composition is a behaviour of each front end, fairness included, whose
\* theorems therefore hold of it.
THEOREM WebConsoleComposes == MCSpec => FilesSpec /\ TermSpec /\ SqlSpec
<1>1. MCInit => FilesInit /\ TermInit /\ SqlInit
  BY DEF MCInit
<1>2. [MCNext]_mcVars => [FilesNext]_fileVars
  BY DEF MCNext, mcVars
<1>3. [MCNext]_mcVars => [TermNext]_termVars
  BY DEF MCNext, mcVars
<1>4. [MCNext]_mcVars => [SqlNext]_sqlVars
  BY DEF MCNext, mcVars
<1> QED BY <1>1, <1>2, <1>3, <1>4, PTL DEF MCSpec, FilesSpec, TermSpec, SqlSpec
=============================================================================
