----------------------- MODULE PendingActionsProofs ------------------------
(***************************************************************************)
(* Proofs about PendingActions and the client of T3 it goes through, for   *)
(* every number of calls, crashes and changes of T3's protocol.            *)
(*                                                                         *)
(* The invariant has three parts:                                          *)
(*   Types:        also what a call's variables are at each of its stages; *)
(*   Dispatching:  receipts against what T3 has, and where each call that  *)
(*                 dispatches stands between the two;                      *)
(*   Reading:      how what a read goes by relates to what T3 speaks now,  *)
(*                 as long as T3 has not changed since the read began.     *)
(*                                                                         *)
(* A step is one call's or nobody's (Steps).  A call's step is a Turn: the *)
(* others stand where they stood.  It begins a receipt, settles it, sends  *)
(* a part, ends the dispatch, or does nothing of these (Aside).            *)
(***************************************************************************)
EXTENDS PendingActions, TLAPS

Stages == {"idle", "scope", "learning", "reading", "answered", "checking", "read",
           "discovering", "sending", "dispatched", "environment", "done"}

Statuses == {"none", "prepared", "uncertain", "accepted", "rejected"}

Outcomes == {"uncertain", "accepted", "rejected"}

\* Call c reads.
Looking(c) == pc[c] \in {"learning", "reading", "answered", "checking"}

\* What a call's own variables may be at each of its stages.
Steady(c) ==
  /\ pc[c] \notin {"reading", "answered", "checking"} => attempt[c] = 0
  /\ pc[c] \in {"reading", "answered"} => attempt[c] \in {1, 2}
  /\ pc[c] = "checking" => attempt[c] = 1
  /\ pc[c] \in {"reading", "answered", "checking"} => version[c] \in Supported
  /\ pc[c] = "sending" => version[c] \in Supported /\ part[c] \in 1 .. Len(Parts(c, version[c]))
  /\ pc[c] = "dispatched" => got[c] \in Outcomes
  /\ pc[c] \in {"answered", "checking"} => got[c] \in {"read", "incompatible"}

Types ==
  /\ TypeOK
  /\ pc \in [Calls -> Stages] /\ held \in [Calls -> Statuses]
  /\ answer \in [Responders -> Statuses \cup {"error"}]
  /\ \A c \in Calls : Steady(c)

\* The n-th part of c's command in protocol v.
Piece(c, v, n) == [by |-> c, version |-> v, part |-> Parts(c, v)[n]]

AllApplied(c) == \E v \in Supported : \A n \in DOMAIN Parts(c, v) : Piece(c, v, n) \in applied

NonePending(c) == \A m \in wire \cup applied : m.by # c

\* A command is in one place.
Apart == wire \cap applied = {} /\ wire \cap refused = {} /\ applied \cap refused = {}

\* A settled status that c has read is the one of its receipt.
Known(c, status) == status \in {"accepted", "rejected"} => receipts[Key(c)].status = status

\* The receipt of k is true of T3.
Honest(k) ==
  /\ receipts[k].status # "none" => receipts[k].by \in Calls /\ Key(receipts[k].by) = k
  /\ receipts[k].status = "accepted" => AllApplied(receipts[k].by)
  /\ receipts[k].status = "rejected" => NonePending(receipts[k].by)

\* Where call c stands between its receipt and T3.
Standing(c) ==
  /\ pc[c] \in {"idle", "scope"} => Of(c) = {}
  /\ Of(c) # {} => receipts[Key(c)].by = c /\ receipts[Key(c)].status # "none"
  /\ pc[c] \in {"discovering", "sending", "dispatched"} =>
       receipts[Key(c)].by = c /\ receipts[Key(c)].status = "prepared"
  /\ pc[c] = "discovering" => Of(c) = {}
  /\ pc[c] = "sending" =>
       /\ Of(c) = {Piece(c, version[c], n) : n \in 1 .. part[c]}
       /\ \A n \in 1 .. part[c] - 1 : Piece(c, version[c], n) \in applied
  /\ pc[c] = "dispatched" =>
       /\ got[c] = "accepted" => AllApplied(c)
       /\ got[c] = "rejected" => NonePending(c)
  /\ \A m \in Of(c) : m.part = "message" =>
       {"runtime", "interaction"} \subseteq {n.part : n \in {n \in applied : n.by = c}}
  /\ c \in Responders => Known(c, held[c]) /\ Known(c, answer[c])

Dispatching ==
  /\ Apart
  /\ \A k \in Keys : Honest(k)
  /\ \A c \in Calls : Standing(c)

\* A discovery tells what T3 spoke since it was asked, and so does the cache.
Discovering ==
  /\ discovery # NoDiscovery =>
       /\ discovery.since <= switches
       /\ discovery.state = "told" /\ discovery.since = switches => discovery.version = speaks
  /\ asked <= switches
  /\ cached # 0 /\ asked = switches => cached = speaks

\* What call c reads by, as long as T3 has not changed since it was asked.
Current(c) ==
  /\ pc[c] \in {"learning", "checking"} /\ c \notin waits => learned[c] \in {0, speaks}
  /\ pc[c] = "learning" => cached \in {0, speaks}
  /\ attempt[c] = 1 => version[c] = speaks \/ cached \in {version[c], speaks}
  /\ attempt[c] = 2 => version[c] = speaks
  /\ pc[c] = "answered" => (got[c] = "incompatible" <=> version[c] # speaks)
  /\ pc[c] = "checking" => version[c] # speaks

Fresh(c) ==
  /\ mark[c] <= switches
  /\ discovery # NoDiscovery => mark[c] <= discovery.since
  /\ mark[c] = switches => Current(c)

Reading == Discovering /\ \A c \in Calls : Looking(c) => Fresh(c)

IInv == Types /\ Dispatching /\ Reading

-----------------------------------------------------------------------------
Results == {"none", "read", "incompatible", "unsupported", "failed"} \cup Outcomes

\* g is f but for c.
Only(f, g, c) == g = [f EXCEPT ![c] = g[c]]

\* A step of call c.
CallStep(c) ==
  \/ c \in Responders /\ (Respond(c) \/ Scope(c))
  \/ c \in Sending /\ (List(c) \/ SendTurn(c))
  \/ Settle(c) \/ Resume(c) \/ Conclude(c)
  \/ (Reads(c) \/ Dispatches(c)) /\ UNCHANGED actionVars

\* What a step of call c does to what calls share of the client,
CacheTurn(c) ==
  /\ waits' \in {waits, waits \cup {c}}
  /\ \/ discovery' = discovery
     \/ /\ discovery = NoDiscovery
        /\ discovery' = [state |-> "asked", version |-> 0, since |-> switches]
  /\ Only(learned, learned', c) /\ learned'[c] \in {learned[c], 0}
  /\ UNCHANGED <<cached, asked>>

\* to where it stands,
Marks(c) == Only(mark, mark', c) /\ mark'[c] \in {mark[c], 0, switches, discovery.since}

ReadTurn(c) ==
  /\ Only(pc, pc', c) /\ Only(version, version', c) /\ Only(part, part', c)
  /\ Only(attempt, attempt', c) /\ Only(got, got', c) /\ Marks(c)

\* and to what it has been told.
ToldTurn(c) ==
  /\ Only(held, held', c) /\ held'[c] \in Statuses
  /\ answer' \in [Responders -> Statuses \cup {"error"}]
  /\ \A d \in Responders \ {c} : answer'[d] = answer[d]

Turn(c) ==
  /\ CacheTurn(c) /\ ReadTurn(c) /\ ToldTurn(c)
  /\ UNCHANGED <<speaks, switches, applied, refused, payload, crashes>>

Own(c) ==
  /\ pc[c] \in Stages /\ version[c] \in Supported \cup {0} /\ part[c] \in 0 .. 3
  /\ attempt[c] \in 0 .. 2 /\ got[c] \in Results
  /\ Steady(c)

LEMMA PartsShape ==
  ASSUME NEW c \in Calls, NEW v \in Supported
  PROVE  /\ Len(Parts(c, v)) \in 1 .. 3 /\ 1 .. Len(Parts(c, v)) \subseteq 1 .. 3
         /\ DOMAIN Parts(c, v) = 1 .. Len(Parts(c, v))
         /\ \A n \in 1 .. Len(Parts(c, v)) : Piece(c, v, n) \in Commands
         /\ \A n \in 1 .. Len(Parts(c, v)) : \A i \in 1 .. n - 1 :
              Parts(c, v)[i] # Parts(c, v)[n]
         /\ \A n \in 1 .. Len(Parts(c, v)) : Parts(c, v)[n] = "message" =>
              /\ n = 3 /\ Parts(c, v)[1] = "runtime" /\ Parts(c, v)[2] = "interaction"
         /\ v = 1 => Len(Parts(c, v)) = 1
  <1>1. CASE v = 2 /\ c \in Sending
    <2>1. Parts(c, v) = <<"runtime", "interaction", "message">>
      BY <1>1 DEF Parts
    <2> HIDE DEF Parts
    <2>2. /\ Len(Parts(c, v)) = 3 /\ DOMAIN Parts(c, v) = 1 .. 3 /\ Parts(c, v)[1] = "runtime"
          /\ Parts(c, v)[2] = "interaction" /\ Parts(c, v)[3] = "message"
      BY <2>1
    <2>3. \A n \in 1 .. 3 : n \in {1, 2, 3} /\ 1 .. n - 1 \subseteq {1, 2} \ {n}
      OBVIOUS
    <2>4. \A n \in 1 .. 3 : Parts(c, v)[n] \in {"runtime", "interaction", "message"}
      BY <2>2, <2>3
    <2>5. \A n \in 1 .. 3 : \A i \in 1 .. n - 1 : Parts(c, v)[i] # Parts(c, v)[n]
      <3>1. ASSUME NEW n \in 1 .. 3, NEW i \in 1 .. n - 1
            PROVE  (n = 2 /\ i = 1) \/ (n = 3 /\ i \in {1, 2})
        OBVIOUS
      <3>2. QED
        BY <2>2, <3>1
    <2>6. \A n \in 1 .. 3 : Parts(c, v)[n] = "message" => n = 3
      BY <2>2, <2>3
    <2>7. \A n \in 1 .. 3 : Piece(c, v, n) \in Commands
      BY <2>4 DEF Piece, Commands
    <2>8. 3 \in 1 .. 3 /\ v # 1
      BY <1>1
    <2>9. QED
      BY <2>2, <2>5, <2>6, <2>7, <2>8, Zenon
  <1>2. CASE ~(v = 2 /\ c \in Sending)
    <2>1. Parts(c, v) = <<"command">>
      BY <1>2 DEF Parts
    <2> HIDE DEF Parts
    <2>2. Len(Parts(c, v)) = 1 /\ DOMAIN Parts(c, v) = 1 .. 1 /\ Parts(c, v)[1] = "command"
      BY <2>1
    <2>3. 1 .. 1 \subseteq 1 .. 3 /\ \A n \in 1 .. 1 : n = 1
      OBVIOUS
    <2>4. QED
      BY <1>2, <2>2, <2>3 DEF Supported, Piece, Commands
  <1>3. QED
    BY <1>1, <1>2

LEMMA TurnTypes ==
  ASSUME Types, NEW c \in Calls, Turn(c), Own(c)', wire' \subseteq Commands,
         receipts' \in [Keys -> [status : Statuses, by : Calls \cup {NoCall},
                                 payload : Payloads \cup {NoCall}]]
  PROVE  Types'
  <1> USE DEF Types
  <1>1. ClientTypeOK'
    <2>1. discovery' \in [state : {"none", "asked", "told"}, version : Versions \cup {0},
                          since : 0 .. MaxSwitches]
      BY DEF Turn, CacheTurn, TypeOK, ClientTypeOK
    <2>4. mark' \in [Calls -> 0 .. MaxSwitches]
      <3>1. mark'[c] \in 0 .. MaxSwitches
        BY VersionAssumption DEF Turn, ReadTurn, Marks, TypeOK, ClientTypeOK
      <3>2. QED
        BY <3>1 DEF Turn, ReadTurn, Marks, Only, TypeOK, ClientTypeOK
    <2>5. learned' \in [Calls -> Versions \cup {0}]
      <3>1. learned'[c] \in Versions \cup {0}
        BY DEF Turn, CacheTurn, TypeOK, ClientTypeOK
      <3>2. QED
        BY <3>1 DEF Turn, CacheTurn, Only, TypeOK, ClientTypeOK
    <2>2. version' \in [Calls -> Supported \cup {0}]
      BY DEF Turn, ReadTurn, Only, TypeOK, ClientTypeOK, Own
    <2>6. part' \in [Calls -> 0 .. 3] /\ attempt' \in [Calls -> 0 .. 2]
      BY DEF Turn, ReadTurn, Only, TypeOK, ClientTypeOK, Own
    <2>7. got' \in [Calls -> Results]
      <3>1. got'[c] \in Results /\ got \in [Calls -> Results]
        BY DEF TypeOK, ClientTypeOK, Own, Results, Outcomes
      <3>2. QED
        BY <3>1 DEF Turn, ReadTurn, Only
    <2>3. QED
      BY <2>1, <2>2, <2>4, <2>5, <2>6, <2>7 DEF Turn, CacheTurn, TypeOK, ClientTypeOK, Results, Outcomes
  <1>2. TypeOK'
    BY <1>1 DEF TypeOK, Turn, Statuses
  <1>3. pc' \in [Calls -> Stages] /\ held' \in [Calls -> Statuses]
    BY DEF Turn, ReadTurn, ToldTurn, Only, Own
  <1>4. ASSUME NEW d \in Calls
        PROVE  Steady(d)'
    <2>1. CASE d = c
      BY <2>1 DEF Own
    <2>2. CASE d # c
      <3>1. /\ pc'[d] = pc[d] /\ version'[d] = version[d] /\ part'[d] = part[d]
            /\ attempt'[d] = attempt[d] /\ got'[d] = got[d]
        BY <2>2 DEF Turn, ReadTurn, Only, TypeOK, ClientTypeOK
      <3>2. QED
        BY <3>1 DEF Steady
    <2>3. QED
      BY <2>1, <2>2
  <1>5. QED
    BY <1>2, <1>3, <1>4 DEF Turn, ToldTurn

LEMMA CacheTurns ==
  ASSUME Types, NEW c \in Calls
  PROVE  /\ UNCHANGED cacheVars => CacheTurn(c)
         /\ Use(c) => CacheTurn(c)
         /\ \A next : Discover(c, next) => CacheTurn(c) /\ Only(pc, pc', c) /\ pc'[c] = next
  <1>1. learned \in [Calls -> Versions \cup {0}] /\ pc \in [Calls -> Stages]
    BY DEF Types, TypeOK, ClientTypeOK
  <1>2. QED
    BY <1>1 DEF CacheTurn, Only, Use, Discover, cacheVars

LEMMA RequestTurn ==
  ASSUME Types, NEW c \in Calls, NEW v \in Supported, attempt[c] \in {0, 1},
         Request(c, v), part' = part, Marks(c)
  PROVE  ReadTurn(c) /\ Own(c)'
  <1> USE DEF Types, TypeOK, ClientTypeOK, Request
  <1>1. ReadTurn(c)
    BY DEF ReadTurn, Only
  <1>2. Own(c)'
    BY DEF Own, Steady, Stages, Supported, Results, Outcomes
  <1>3. QED
    BY <1>1, <1>2

LEMMA EndReadTurn ==
  ASSUME Types, NEW c \in Calls, NEW result \in Results,
         EndRead(c, result), part' = part, Marks(c)
  PROVE  ReadTurn(c) /\ Own(c)'
  <1> USE DEF Types, TypeOK, ClientTypeOK, EndRead
  <1>1. ReadTurn(c)
    BY DEF ReadTurn, Only
  <1>2. Own(c)'
    BY DEF Own, Steady, Stages, Supported, Results, Outcomes
  <1>3. QED
    BY <1>1, <1>2

\* A call moves on to ask for a discovery, keeping what it has or dropping it.
LEMMA WaitTurn ==
  ASSUME Types, NEW c \in Calls,
         Only(pc, pc', c), pc'[c] \in {"learning", "checking", "discovering", "environment"},
         attempt[c] = (IF pc'[c] = "checking" THEN 1 ELSE 0),
         pc'[c] = "checking" => version[c] \in Supported /\ got'[c] = "incompatible",
         UNCHANGED <<version, part, attempt>>, Only(got, got', c), got'[c] \in {got[c], "none"},
         Marks(c)
  PROVE  ReadTurn(c) /\ Own(c)'
  <1> USE DEF Types, TypeOK, ClientTypeOK
  <1>1. ReadTurn(c)
    BY DEF ReadTurn, Only
  <1>2. Own(c)'
    BY DEF Own, Only, Steady, Stages, Supported, Results, Outcomes
  <1>3. QED
    BY <1>1, <1>2

LEMMA SendPartTurn ==
  ASSUME Types, NEW c \in Calls, NEW v \in Supported, NEW n \in 1 .. Len(Parts(c, v)),
         SendPart(c, v, n), attempt[c] = 0, UNCHANGED <<attempt, mark>>
  PROVE  ReadTurn(c) /\ Own(c)' /\ wire' \subseteq Commands
  <1>1. n \in 1 .. 3
    BY PartsShape
  <1> USE DEF Types, TypeOK, ClientTypeOK, SendPart
  <1>2. ReadTurn(c)
    BY DEF ReadTurn, Only, Marks
  <1>3. Own(c)'
    BY <1>1 DEF Own, Steady, Stages, Supported, Results, Outcomes
  <1>4. wire' \subseteq Commands
    BY PartsShape DEF Piece
  <1>5. QED
    BY <1>2, <1>3, <1>4

LEMMA EndDispatchTurn ==
  ASSUME Types, NEW c \in Calls, NEW result \in Outcomes,
         EndDispatch(c, result), attempt[c] = 0, UNCHANGED <<attempt, mark>>
  PROVE  ReadTurn(c) /\ Own(c)'
  <1> USE DEF Types, TypeOK, ClientTypeOK, EndDispatch
  <1>1. ReadTurn(c)
    BY DEF ReadTurn, Only, Marks
  <1>2. Own(c)'
    BY DEF Own, Steady, Stages, Supported, Results, Outcomes
  <1>3. QED
    BY <1>1, <1>2

LEMMA FinishTurn ==
  ASSUME Types, NEW c \in Calls, NEW a \in Statuses \cup {"error"},
         Finish(c, a), attempt[c] = 0
  PROVE  ReadTurn(c) /\ Own(c)' /\ ToldTurn(c)
  <1> USE DEF Types, TypeOK, ClientTypeOK, Finish
  <1>1. ReadTurn(c)
    BY DEF ReadTurn, Only, Marks
  <1>2. Own(c)'
    BY DEF Own, Steady, Stages, Supported, Results, Outcomes
  <1>3. ToldTurn(c)
    BY DEF ToldTurn, Only, Statuses
  <1>4. QED
    BY <1>1, <1>2, <1>3

LEMMA ToldTurns ==
  ASSUME Types, NEW c \in Calls
  PROVE  /\ UNCHANGED <<held, answer>> => ToldTurn(c)
         /\ \A a \in Statuses :
              held' = [held EXCEPT ![c] = a] /\ answer' = answer => ToldTurn(c)
  BY DEF Types, ToldTurn, Only

LEMMA StartReadTurn ==
  ASSUME Types, NEW c \in Calls, attempt[c] = 0, StartRead(c)
  PROVE  CacheTurn(c) /\ ReadTurn(c) /\ Own(c)'
  <1>1. Marks(c)
    BY DEF StartRead, Marks, Only, Types, TypeOK, ClientTypeOK
  <1>2. CASE Discover(c, "learning") /\ UNCHANGED <<version, attempt, got>>
    <2>1. CacheTurn(c) /\ Only(pc, pc', c) /\ pc'[c] = "learning"
      BY <1>2, CacheTurns
    <2>2. Only(got, got', c) /\ part' = part
      BY <1>2 DEF StartRead, Only, Types, TypeOK, ClientTypeOK
    <2>3. QED
      BY <1>1, <1>2, <2>1, <2>2, WaitTurn
  <1>3. CASE cached \in Supported /\ Request(c, cached) /\ UNCHANGED cacheVars
    BY <1>1, <1>3, RequestTurn, CacheTurns DEF StartRead
  <1>4. CASE EndRead(c, "unsupported") /\ UNCHANGED cacheVars
    BY <1>1, <1>4, EndReadTurn, CacheTurns DEF StartRead, Results
  <1>5. QED
    BY <1>2, <1>3, <1>4 DEF StartRead

LEMMA AskTurn ==
  ASSUME Types, NEW c \in Calls, attempt[c] = 0, AskEnvironment(c)
  PROVE  CacheTurn(c) /\ ReadTurn(c) /\ Own(c)'
  <1>1. CacheTurn(c) /\ Only(pc, pc', c) /\ pc'[c] = "environment"
    BY CacheTurns DEF AskEnvironment
  <1>2. Marks(c) /\ Only(got, got', c) /\ got'[c] = "none"
    BY DEF AskEnvironment, Marks, Only, Types, TypeOK, ClientTypeOK
  <1>3. QED
    BY <1>1, <1>2, WaitTurn DEF AskEnvironment

LEMMA SameMarks ==
  ASSUME Types, NEW c \in Calls
  PROVE  UNCHANGED mark => Marks(c)
  BY DEF Types, TypeOK, ClientTypeOK, Marks, Only

LEMMA LearnTurn ==
  ASSUME Types, NEW c \in Calls, Learn(c), UNCHANGED actionVars
  PROVE  Turn(c) /\ Own(c)'
  <1>1. attempt[c] = 0 /\ Learned(c) \in {0} \cup Supported
    BY DEF Types, Steady, Learn, Learned
  <1>2. CacheTurn(c) /\ ToldTurn(c) /\ Marks(c) /\ part' = part
    BY CacheTurns, ToldTurns, SameMarks DEF Learn, actionVars
  <1>3. \/ Request(c, Learned(c)) /\ Learned(c) \in Supported
        \/ \E result \in {"failed", "unsupported"} : EndRead(c, result)
    BY <1>1 DEF Learn
  <1>4. ReadTurn(c) /\ Own(c)'
    BY <1>1, <1>2, <1>3, RequestTurn, EndReadTurn DEF Results
  <1>5. QED
    BY <1>2, <1>4 DEF Turn, Learn, t3Vars, actionVars

LEMMA AnswerTurn ==
  ASSUME Types, NEW c \in Calls, Answer(c), UNCHANGED actionVars
  PROVE  Turn(c) /\ Own(c)'
  <1>1. CacheTurn(c) /\ ToldTurn(c) /\ Marks(c)
    BY CacheTurns, ToldTurns, SameMarks DEF Answer, actionVars
  <1>2. ReadTurn(c)
    BY <1>1 DEF Types, TypeOK, ClientTypeOK, Answer, ReadTurn, Only
  <1>3. Own(c)'
    BY DEF Types, TypeOK, ClientTypeOK, Answer, Own, Steady, Stages, Results
  <1>4. QED
    BY <1>1, <1>2, <1>3 DEF Turn, Answer, t3Vars, actionVars

LEMMA ReadBreaksTurn ==
  ASSUME Types, NEW c \in Calls, ReadBreaks(c), UNCHANGED actionVars
  PROVE  Turn(c) /\ Own(c)'
  <1>1. CacheTurn(c) /\ ToldTurn(c) /\ Marks(c)
    BY CacheTurns, ToldTurns, SameMarks DEF ReadBreaks, actionVars
  <1>2. ReadTurn(c) /\ Own(c)'
    BY <1>1, EndReadTurn DEF ReadBreaks, Results
  <1>3. QED
    BY <1>1, <1>2 DEF Turn, ReadBreaks, t3Vars, actionVars

LEMMA ReadArrivesTurn ==
  ASSUME Types, NEW c \in Calls, ReadArrives(c), UNCHANGED actionVars
  PROVE  Turn(c) /\ Own(c)'
  <1>1. got[c] \in Results /\ attempt[c] \in {1, 2} /\ version[c] \in Supported
    BY DEF Types, TypeOK, ClientTypeOK, Steady, ReadArrives, Results, Outcomes
  <1>2. ToldTurn(c) /\ Marks(c) /\ part' = part
    <2>1. UNCHANGED mark \/ mark' = [mark EXCEPT ![c] = 0]
      BY DEF ReadArrives
    <2>2. Marks(c)
      BY <2>1 DEF Marks, Only, Types, TypeOK, ClientTypeOK
    <2>3. QED
      BY <2>2, ToldTurns DEF ReadArrives, actionVars
  <1>3. CASE EndRead(c, got[c]) /\ UNCHANGED cacheVars
    <2>1. CacheTurn(c) /\ ReadTurn(c) /\ Own(c)'
      BY <1>1, <1>2, <1>3, EndReadTurn, CacheTurns
    <2>2. QED
      BY <1>2, <2>1 DEF Turn, ReadArrives, t3Vars, actionVars
  <1>4. CASE got[c] = "incompatible" /\ attempt[c] = 1 /\ CheckAgain(c)
    <2>1. CASE Discover(c, "checking") /\ UNCHANGED <<version, attempt, got>>
      <3>1. CacheTurn(c) /\ Only(pc, pc', c) /\ pc'[c] = "checking" /\ Only(got, got', c)
        BY <2>1, CacheTurns DEF Only, Types, TypeOK, ClientTypeOK
      <3>2. ReadTurn(c) /\ Own(c)'
        BY <1>1, <1>2, <1>4, <2>1, <3>1, WaitTurn DEF ReadArrives
      <3>3. QED
        BY <1>2, <3>1, <3>2 DEF Turn, ReadArrives, t3Vars, actionVars
    <2>2. CASE cached \in Supported \ {version[c]} /\ Request(c, cached) /\ UNCHANGED cacheVars
      <3>1. CacheTurn(c) /\ ReadTurn(c) /\ Own(c)'
        BY <1>2, <1>4, <2>2, RequestTurn, CacheTurns
      <3>2. QED
        BY <1>2, <3>1 DEF Turn, ReadArrives, t3Vars, actionVars
    <2>3. QED
      BY <1>3, <1>4, <2>1, <2>2 DEF CheckAgain
  <1>5. QED
    BY <1>3, <1>4 DEF ReadArrives

LEMMA CheckedTurn ==
  ASSUME Types, NEW c \in Calls, Checked(c), UNCHANGED actionVars
  PROVE  Turn(c) /\ Own(c)'
  <1>1. attempt[c] = 1 /\ Learned(c) \in {0} \cup Supported /\ got[c] \in Results
    BY DEF Types, TypeOK, ClientTypeOK, Steady, Checked, Learned, Results, Outcomes
  <1>2. CacheTurn(c) /\ ToldTurn(c) /\ Marks(c) /\ part' = part
    BY CacheTurns, ToldTurns, SameMarks DEF Checked, actionVars
  <1>3. (Request(c, Learned(c)) /\ Learned(c) \in Supported) \/ EndRead(c, got[c])
    BY <1>1 DEF Checked
  <1>4. ReadTurn(c) /\ Own(c)'
    BY <1>1, <1>2, <1>3, RequestTurn, EndReadTurn
  <1>5. QED
    BY <1>2, <1>4 DEF Turn, Checked, t3Vars, actionVars

LEMMA DispatchLearnsTurn ==
  ASSUME Types, NEW c \in Calls, DispatchLearns(c), UNCHANGED actionVars
  PROVE  Turn(c) /\ Own(c)' /\ wire' \subseteq Commands
  <1>1. attempt[c] = 0
    BY DEF Types, Steady, DispatchLearns
  <1>2. CacheTurn(c) /\ ToldTurn(c)
    BY CacheTurns, ToldTurns DEF DispatchLearns, actionVars
  <1>3. ReadTurn(c) /\ Own(c)' /\ wire' \subseteq Commands
    <2>1. CASE Learned(c) # 0
      <3>1. Learned(c) \in Supported /\ SendPart(c, Learned(c), 1)
        BY <2>1 DEF DispatchLearns, Learned
      <3>2. 1 \in 1 .. Len(Parts(c, Learned(c)))
        BY <3>1, PartsShape
      <3>3. QED
        BY <1>1, <3>1, <3>2, SendPartTurn DEF DispatchLearns
    <2>2. CASE Learned(c) = 0
      <3>1. wire' = wire /\ EndDispatch(c, "rejected")
        BY <2>2 DEF DispatchLearns, EndDispatch
      <3>2. QED
        BY <1>1, <3>1, EndDispatchTurn
        DEF DispatchLearns, Outcomes, Types, TypeOK, ClientTypeOK
    <2>3. QED
      BY <2>1, <2>2
  <1>4. QED
    BY <1>2, <1>3 DEF Turn, DispatchLearns, actionVars

LEMMA AcknowledgedTurn ==
  ASSUME Types, NEW c \in Calls, Acknowledged(c), UNCHANGED actionVars
  PROVE  Turn(c) /\ Own(c)' /\ wire' \subseteq Commands
  <1>1. /\ attempt[c] = 0 /\ version[c] \in Supported
        /\ part[c] \in 1 .. Len(Parts(c, version[c]))
    BY DEF Types, Steady, Acknowledged
  <1>2. CacheTurn(c) /\ ToldTurn(c)
    BY CacheTurns, ToldTurns DEF Acknowledged, actionVars
  <1>3. ReadTurn(c) /\ Own(c)' /\ wire' \subseteq Commands
    <2>1. CASE part[c] < Len(Parts(c, version[c]))
      <3>1. part[c] + 1 \in 1 .. Len(Parts(c, version[c]))
        <4>1. Len(Parts(c, version[c])) \in 1 .. 3
          BY <1>1, PartsShape
        <4>2. QED
          BY <1>1, <2>1, <4>1
      <3>2. SendPart(c, version[c], part[c] + 1)
        BY <2>1 DEF Acknowledged
      <3>3. QED
        BY <1>1, <3>1, <3>2, SendPartTurn DEF Acknowledged
    <2>2. CASE ~(part[c] < Len(Parts(c, version[c])))
      <3>1. wire' = wire /\ EndDispatch(c, "accepted")
        BY <2>2 DEF Acknowledged, EndDispatch
      <3>2. QED
        BY <1>1, <3>1, EndDispatchTurn
        DEF Acknowledged, Outcomes, Types, TypeOK, ClientTypeOK
    <2>3. QED
      BY <2>1, <2>2
  <1>4. QED
    BY <1>2, <1>3 DEF Turn, Acknowledged, actionVars

LEMMA UnackedTurn ==
  ASSUME Types, NEW c \in Calls, Refused(c) \/ Unanswered(c), UNCHANGED actionVars
  PROVE  Turn(c) /\ Own(c)' /\ wire' \subseteq Commands
  <1>1. attempt[c] = 0
    BY DEF Types, Steady, Refused, Unanswered
  <1>2. CacheTurn(c) /\ ToldTurn(c)
    BY CacheTurns, ToldTurns DEF Refused, Unanswered, actionVars
  <1>3. \E result \in Outcomes : EndDispatch(c, result)
    BY DEF Refused, Unanswered, Refusal, Outcomes
  <1>4. ReadTurn(c) /\ Own(c)'
    BY <1>1, <1>3, EndDispatchTurn DEF Refused, Unanswered
  <1>5. wire' \subseteq Commands
    BY <1>3 DEF EndDispatch, Types, TypeOK, ClientTypeOK
  <1>6. QED
    BY <1>2, <1>4, <1>5 DEF Turn, Refused, Unanswered, actionVars

ReceiptTypes ==
  receipts \in [Keys -> [status : Statuses, by : Calls \cup {NoCall},
                         payload : Payloads \cup {NoCall}]]

LEMMA NewReceiptTypes ==
  ASSUME Types, NEW c \in Calls, receipts' = [receipts EXCEPT ![Key(c)] = NewReceipt(c)]
  PROVE  ReceiptTypes'
  <1>1. NewReceipt(c) \in [status : Statuses, by : Calls \cup {NoCall},
                           payload : Payloads \cup {NoCall}]
    BY CallAssumption DEF NewReceipt, Statuses, Types, TypeOK
  <1>2. QED
    BY <1>1 DEF ReceiptTypes, Types, TypeOK, Statuses

LEMMA SettledTypes ==
  ASSUME Types, NEW c \in Calls, NEW s \in Statuses,
         receipts' = [receipts EXCEPT ![Key(c)].status = s]
  PROVE  ReceiptTypes'
  BY ZenonT(60) DEF ReceiptTypes, Types, TypeOK, Statuses

LEMMA ReuseTurn ==
  ASSUME Types, NEW c \in Responders, attempt[c] = 0, Reuse(c)
  PROVE  CacheTurn(c) /\ ReadTurn(c) /\ ToldTurn(c) /\ Own(c)'
  <1>1. c \in Calls
    BY CallAssumption
  <1>2. CASE Finish(c, "error") /\ UNCHANGED cacheVars
    BY <1>1, <1>2, FinishTurn, CacheTurns
  <1>3. CASE /\ held' = [held EXCEPT ![c] = receipts[Action].status]
             /\ AskEnvironment(c) \/ StartRead(c)
             /\ UNCHANGED answer
    <2>1. receipts[Action].status \in Statuses
      BY DEF Types, TypeOK, Keys, Statuses
    <2>2. ToldTurn(c)
      BY <1>1, <1>3, <2>1, ToldTurns
    <2>3. QED
      BY <1>1, <1>3, <2>2, AskTurn, StartReadTurn
  <1>4. QED
    BY <1>2, <1>3 DEF Reuse

LEMMA StartDispatchTurn ==
  ASSUME Types, NEW c \in Calls, attempt[c] = 0, StartDispatch(c)
  PROVE  CacheTurn(c) /\ ReadTurn(c) /\ Own(c)'
  <1>1. CacheTurn(c) /\ Only(pc, pc', c) /\ pc'[c] = "discovering"
    BY CacheTurns DEF StartDispatch
  <1>2. Marks(c) /\ Only(got, got', c) /\ got'[c] = got[c]
    BY SameMarks DEF StartDispatch, readVars, Only, Types, TypeOK, ClientTypeOK
  <1>3. QED
    BY <1>1, <1>2, WaitTurn DEF StartDispatch, readVars

LEMMA RespondTurn ==
  ASSUME Types, NEW c \in Responders, Respond(c) \/ Scope(c)
  PROVE  Turn(c) /\ Own(c)' /\ ReceiptTypes'
  <1>1. c \in Calls /\ attempt[c] = 0
    BY CallAssumption DEF Types, Steady, Respond, Scope
  <1>2. CacheTurn(c) /\ ReadTurn(c) /\ ToldTurn(c) /\ Own(c)'
    <2>1. CASE Reuse(c)
      BY <1>1, <2>1, ReuseTurn
    <2>2. CASE pc' = [pc EXCEPT ![c] = "scope"] /\ UNCHANGED <<cacheVars, readVars, held, answer>>
      <3>1. CacheTurn(c) /\ ToldTurn(c) /\ Marks(c)
        BY <1>1, <2>2, CacheTurns, ToldTurns, SameMarks DEF readVars
      <3>2. ReadTurn(c)
        BY <1>1, <2>2, <3>1 DEF ReadTurn, Only, readVars, Types, TypeOK, ClientTypeOK
      <3>3. Own(c)'
        BY <1>1, <2>2 DEF Own, Steady, Stages, Results, Outcomes, readVars, Types, TypeOK, ClientTypeOK
      <3>4. QED
        BY <3>1, <3>2, <3>3
    <2>3. CASE StartDispatch(c) /\ UNCHANGED <<held, answer>>
      BY <1>1, <2>3, StartDispatchTurn, ToldTurns
    <2>4. CASE Finish(c, "error") /\ UNCHANGED cacheVars
      BY <1>1, <2>4, FinishTurn, CacheTurns
    <2>5. QED
      BY <2>1, <2>2, <2>3, <2>4 DEF Respond, Scope, Begin
  <1>3. ReceiptTypes'
    <2>1. receipts' = receipts \/ receipts' = [receipts EXCEPT ![Key(c)] = NewReceipt(c)]
      BY CallAssumption DEF Respond, Scope, Begin, Key
    <2>2. QED
      BY <1>1, <2>1, NewReceiptTypes DEF ReceiptTypes, Types, TypeOK, Statuses
  <1>4. QED
    BY <1>2, <1>3 DEF Turn, Respond, Scope, t3Vars

LEMMA BeginTurn ==
  ASSUME Types, NEW c \in Sending, List(c) \/ SendTurn(c)
  PROVE  Turn(c) /\ Own(c)' /\ ReceiptTypes'
  <1>1. c \in Calls /\ attempt[c] = 0
    BY VersionAssumption DEF Types, Steady, List, SendTurn
  <1>2. CacheTurn(c) /\ ReadTurn(c) /\ ToldTurn(c) /\ Own(c)'
    BY <1>1, StartReadTurn, StartDispatchTurn, ToldTurns DEF List, SendTurn, actionVars
  <1>3. ReceiptTypes'
    <2>1. receipts' = receipts \/ receipts' = [receipts EXCEPT ![Key(c)] = NewReceipt(c)]
      BY DEF List, SendTurn, Key, actionVars
    <2>2. QED
      BY <1>1, <2>1, NewReceiptTypes DEF ReceiptTypes, Types, TypeOK, Statuses
  <1>4. QED
    BY <1>2, <1>3 DEF Turn, List, SendTurn, t3Vars, actionVars

LEMMA EndTurn ==
  ASSUME Types, NEW c \in Calls, Settle(c) \/ Resume(c) \/ Conclude(c)
  PROVE  Turn(c) /\ Own(c)' /\ ReceiptTypes'
  <1>1. attempt[c] = 0
    BY DEF Types, Steady, Settle, Resume, Conclude
  <1>2. CacheTurn(c) /\ ReadTurn(c) /\ ToldTurn(c) /\ Own(c)' /\ ReceiptTypes'
    <2>1. CASE Settle(c) /\ AskEnvironment(c)
      <3>1. got[c] \in Statuses
        BY <2>1 DEF Settle, Types, Steady, Outcomes, Statuses
      <3>2. CASE UNCHANGED answer /\ held' = [held EXCEPT ![c] = got[c]]
                 /\ receipts' = [receipts EXCEPT ![Key(c)].status = got[c]]
        BY <1>1, <2>1, <3>1, <3>2, AskTurn, ToldTurns, SettledTypes
      <3>3. CASE Finish(c, "error") /\ UNCHANGED <<receipts, cacheVars>>
        BY <1>1, <3>3, FinishTurn, CacheTurns DEF ReceiptTypes, Types, TypeOK, Statuses
      <3>4. QED
        BY <2>1, <3>2, <3>3 DEF Settle
    <2>2. CASE AskEnvironment(c) /\ UNCHANGED <<held, answer, receipts>>
      BY <1>1, <2>2, AskTurn, ToldTurns DEF ReceiptTypes, Types, TypeOK, Statuses
    <2>3. CASE Finish(c, "error") /\ UNCHANGED <<receipts, cacheVars>>
      BY <1>1, <2>3, FinishTurn, CacheTurns DEF ReceiptTypes, Types, TypeOK, Statuses
    <2>4. CASE StartRead(c) /\ UNCHANGED <<held, answer, receipts>>
      BY <1>1, <2>4, StartReadTurn, ToldTurns DEF ReceiptTypes, Types, TypeOK, Statuses
    <2>5. CASE Finish(c, held[c]) /\ Use(c) /\ UNCHANGED receipts
      <3>1. held[c] \in Statuses
        BY DEF Types
      <3>2. QED
        BY <1>1, <2>5, <3>1, FinishTurn, CacheTurns DEF ReceiptTypes, Types, TypeOK, Statuses
    <2>6. QED
      BY <2>1, <2>2, <2>3, <2>4, <2>5 DEF Settle, Resume, Conclude
  <1>3. QED
    BY <1>2 DEF Turn, Settle, Resume, Conclude, t3Vars

LEMMA CallTurn ==
  ASSUME Types, NEW c \in Calls, CallStep(c)
  PROVE  Turn(c) /\ Own(c)' /\ ReceiptTypes' /\ wire' \subseteq Commands
  <1>1. ((Reads(c) \/ Dispatches(c)) /\ UNCHANGED actionVars) \/ UNCHANGED wire
    BY DEF CallStep, Respond, Scope, List, SendTurn, Settle, Resume, Conclude, t3Vars
  <1>2. CASE Reads(c) /\ UNCHANGED actionVars
    <2>1. Turn(c) /\ Own(c)'
      BY <1>2, LearnTurn, AnswerTurn, ReadBreaksTurn, ReadArrivesTurn, CheckedTurn DEF Reads
    <2>2. UNCHANGED <<receipts, wire>>
      BY <1>2 DEF Reads, Learn, Answer, ReadBreaks, ReadArrives, Checked, t3Vars, actionVars
    <2>3. QED
      BY <2>1, <2>2 DEF ReceiptTypes, Types, TypeOK, ClientTypeOK, Statuses
  <1>3. CASE Dispatches(c) /\ UNCHANGED actionVars
    <2>1. Turn(c) /\ Own(c)' /\ wire' \subseteq Commands
      BY <1>3, DispatchLearnsTurn, AcknowledgedTurn, UnackedTurn DEF Dispatches
    <2>2. QED
      BY <1>3, <2>1 DEF ReceiptTypes, Types, TypeOK, Statuses, actionVars
  <1>4. CASE ~((Reads(c) \/ Dispatches(c)) /\ UNCHANGED actionVars)
    <2>1. Turn(c) /\ Own(c)' /\ ReceiptTypes'
      BY <1>4, RespondTurn, BeginTurn, EndTurn DEF CallStep
    <2>2. QED
      BY <1>1, <1>4, <2>1 DEF Types, TypeOK, ClientTypeOK
  <1>5. QED
    BY <1>2, <1>3, <1>4

-----------------------------------------------------------------------------
\* What is nobody's step: T3's, the discovery's, and a crash.
Shared ==
  \/ (Discovered \/ DiscoveryFails \/ T3) /\ UNCHANGED actionVars
  \/ Crash

LEMMA Steps ==
  ASSUME Types, Next
  PROVE  (\E c \in Calls : CallStep(c)) \/ Shared
  BY CallAssumption, Zenon DEF Next, CallStep, Shared

LEMMA SharedTypes ==
  ASSUME Types, Shared
  PROVE  Types'
  <1>1. CASE (Discovered \/ DiscoveryFails) /\ UNCHANGED actionVars
    <2>1. PICK v \in Versions \cup {0} :
            /\ EndDiscovery(v) /\ cached' \in Versions \cup {0}
            /\ asked' \in 0 .. MaxSwitches
      BY <1>1 DEF Types, TypeOK, ClientTypeOK, Discovered, DiscoveryFails
    <2>2. /\ learned' \in [Calls -> Versions \cup {0}] /\ waits' \subseteq Calls
          /\ discovery' \in [state : {"none", "asked", "told"}, version : Versions \cup {0},
                             since : 0 .. MaxSwitches]
      BY <2>1, VersionAssumption
      DEF Types, TypeOK, ClientTypeOK, EndDiscovery, NoDiscovery
    <2>3. ClientTypeOK'
      BY <2>1, <2>2 DEF Types, TypeOK, ClientTypeOK, EndDiscovery, t3Vars, readVars
    <2>4. QED
      BY <1>1, <2>1, <2>3
      DEF Types, TypeOK, Steady, EndDiscovery, t3Vars, readVars, actionVars
  <1>2. CASE Switch /\ UNCHANGED actionVars
    <2>1. switches' \in 0 .. MaxSwitches
      BY <1>2, VersionAssumption DEF Types, TypeOK, ClientTypeOK, Switch
    <2>2. ClientTypeOK'
      BY <1>2, <2>1 DEF Types, TypeOK, ClientTypeOK, Switch, cacheVars, readVars
    <2>3. QED
      BY <1>2, <2>2 DEF Types, TypeOK, Steady, Switch, cacheVars, readVars, actionVars
  <1>3. CASE Describe /\ UNCHANGED actionVars
    <2>1. ClientTypeOK'
      BY <1>3 DEF Types, TypeOK, ClientTypeOK, Describe, t3Vars, readVars
    <2>2. QED
      BY <1>3, <2>1 DEF Types, TypeOK, Steady, Describe, t3Vars, readVars, actionVars
  <1>4. ASSUME NEW m \in wire, Handle(m), UNCHANGED actionVars
        PROVE  Types'
    <2>1. ClientTypeOK'
      BY <1>4 DEF Types, TypeOK, ClientTypeOK, Handle, cacheVars, readVars
    <2>2. QED
      BY <1>4, <2>1 DEF Types, TypeOK, Steady, Handle, cacheVars, readVars, actionVars
  <1>5. CASE Crash
    <2>1. receipts' \in [Keys -> [status : Statuses, by : Calls \cup {NoCall},
                                  payload : Payloads \cup {NoCall}]]
      BY <1>5 DEF Types, TypeOK, Crash, Statuses
    <2>2. ClientTypeOK'
      BY <1>5, VersionAssumption DEF Types, TypeOK, ClientTypeOK, Crash, NoDiscovery, t3Vars
    <2>3. /\ pc' \in [Calls -> {"idle", "done"}] /\ held' \in [Calls -> Statuses]
          /\ \A c \in Calls : attempt'[c] = 0
      BY <1>5 DEF Crash, Statuses
    <2>4. QED
      BY <1>5, <2>1, <2>2, <2>3 DEF Types, TypeOK, Steady, Stages, Statuses, Crash
  <1>6. QED
    BY <1>1, <1>2, <1>3, <1>4, <1>5 DEF Shared, T3

LEMMA TypesStep == Types /\ [Next]_allVars => Types'
  <1>1. ASSUME Types, NEW c \in Calls, CallStep(c)
        PROVE  Types'
    BY <1>1, CallTurn, TurnTypes DEF ReceiptTypes
  <1>2. ASSUME Types, UNCHANGED allVars
        PROVE  Types'
    BY <1>2 DEF allVars, clientVars, t3Vars, cacheVars, readVars, actionVars,
                Types, TypeOK, ClientTypeOK, Steady
  <1>3. QED
    BY <1>1, <1>2, Steps, SharedTypes

LEMMA InitTypes == Init => Types
  BY VersionAssumption, CallAssumption
  DEF Init, ClientInit, NoReceipt, NoDiscovery, Types, TypeOK, ClientTypeOK, Steady, Stages,
      Statuses, Supported

\* Type correctness of the answering calls and of the client's variables.
THEOREM PendingActionsTypes == Spec => []TypeOK
  <1>1. Spec => []Types
    BY InitTypes, TypesStep, PTL DEF Spec
  <1>2. Types => TypeOK
    BY DEF Types
  <1>3. QED
    BY <1>1, <1>2, PTL

-----------------------------------------------------------------------------
(* What a step does to receipts and commands *)

\* Call d is where it was, and so is its receipt; of its commands none is new,
\* and what T3 has applied it has applied.
Kept(d) ==
  /\ pc'[d] = pc[d] /\ version'[d] = version[d] /\ part'[d] = part[d] /\ got'[d] = got[d]
  /\ held'[d] = held[d] /\ (d \in Responders => answer'[d] = answer[d])
  /\ receipts'[Key(d)] = receipts[Key(d)]

OldNews(d) ==
  /\ applied \subseteq applied'
  /\ {m \in Sent' : m.by = d} = Of(d)
  /\ \A m \in wire' \cup applied' : m.by = d => m \in wire \cup applied

LEMMA NewsOf ==
  ASSUME NEW d \in Calls, OldNews(d)
  PROVE  /\ Of(d)' = Of(d)
         /\ AllApplied(d) => AllApplied(d)'
         /\ NonePending(d) => NonePending(d)'
  BY DEF OldNews, Of, AllApplied, NonePending, Piece

LEMMA KeptStands ==
  ASSUME NEW d \in Calls, Standing(d), Kept(d), OldNews(d)
  PROVE  Standing(d)'
  <1>1. /\ Of(d)' = Of(d)
        /\ AllApplied(d) => AllApplied(d)'
        /\ NonePending(d) => NonePending(d)'
    BY NewsOf
  <1>2. \A m \in Of(d) : m.part = "message" =>
          {"runtime", "interaction"} \subseteq {n.part : n \in {n \in applied' : n.by = d}}
    BY DEF Standing, OldNews
  <1>3. (pc[d] = "sending" =>
          /\ Of(d) = {Piece(d, version[d], n) : n \in 1 .. part[d]}
          /\ \A n \in 1 .. part[d] - 1 : Piece(d, version[d], n) \in applied)'
    BY <1>1 DEF Standing, Kept, OldNews, Piece
  <1>4. (d \in Responders => Known(d, held[d]) /\ Known(d, answer[d]))'
    BY DEF Standing, Kept, Known
  <1>5. QED
    BY <1>1, <1>2, <1>3, <1>4 DEF Standing, Kept

\* What call c may do to its receipt, and send.
ReceiptsMove(c) ==
  \/ UNCHANGED receipts
  \/ /\ pc[c] \in {"idle", "scope"} /\ (c \in Responders => receipts[Action].status = "none")
     /\ receipts' = [receipts EXCEPT ![Key(c)] = NewReceipt(c)]
  \/ /\ pc[c] = "dispatched"
     /\ receipts' = [receipts EXCEPT ![Key(c)].status = got[c]]

WireMove(c) ==
  \/ UNCHANGED wire
  \/ /\ pc[c] \in {"discovering", "sending"}
     /\ \E v \in Supported : \E n \in 1 .. Len(Parts(c, v)) : wire' = wire \cup {Piece(c, v, n)}

LEMMA OthersNews ==
  ASSUME NEW c \in Calls, NEW d \in Calls \ {c}, WireMove(c), UNCHANGED <<applied, refused>>
  PROVE  OldNews(d)
  BY DEF WireMove, OldNews, Of, Sent, Piece

\* Two calls share a key only if both respond.
LEMMA SharedKey ==
  ASSUME NEW c \in Calls, NEW d \in Calls \ {c}, Key(c) = Key(d)
  PROVE  c \in Responders /\ d \in Responders /\ Key(d) = Action
  BY CallAssumption DEF Key

LEMMA OthersStand ==
  ASSUME Types, Dispatching, NEW c \in Calls, Turn(c), ReceiptsMove(c), WireMove(c),
         NEW d \in Calls \ {c}
  PROVE  Standing(d)'
  <1>1. OldNews(d) /\ Standing(d) /\ Standing(c)
    BY OthersNews DEF Turn, Dispatching
  <1>2. /\ pc'[d] = pc[d] /\ version'[d] = version[d] /\ part'[d] = part[d] /\ got'[d] = got[d]
        /\ held'[d] = held[d] /\ (d \in Responders => answer'[d] = answer[d])
    BY DEF Turn, ReadTurn, ToldTurn, Only, Types, TypeOK, ClientTypeOK
  <1>3. CASE receipts'[Key(d)] = receipts[Key(d)]
    BY <1>1, <1>2, <1>3, KeptStands DEF Kept
  <1>4. CASE receipts'[Key(d)] # receipts[Key(d)]
    <2>1. Key(c) = Key(d) /\ Key(d) \in Keys
      BY <1>4, CallAssumption DEF ReceiptsMove, Types, TypeOK, Key, Keys
    <2>2. c \in Responders /\ d \in Responders /\ Key(d) = Action
      BY <2>1, SharedKey
    <2>3. \/ receipts[Key(d)].status = "none"
          \/ receipts[Key(d)].status = "prepared" /\ receipts[Key(d)].by = c
      BY <1>1, <1>4, <2>1, <2>2 DEF ReceiptsMove, Standing
    <2>4. /\ pc[d] \notin {"discovering", "sending", "dispatched"} /\ Of(d) = {}
          /\ held[d] \notin {"accepted", "rejected"} /\ answer[d] \notin {"accepted", "rejected"}
      BY <1>1, <2>2, <2>3 DEF Standing, Known
    <2>5. QED
      BY <1>1, <1>2, <2>4, NewsOf DEF Standing, Known
  <1>5. QED
    BY <1>3, <1>4

\* The receipts of other keys stay true.
LEMMA OthersHonest ==
  ASSUME Types, Dispatching, NEW c \in Calls, Turn(c), ReceiptsMove(c), WireMove(c),
         NEW k \in Keys \ {Key(c)}
  PROVE  Honest(k)'
  <1>1. receipts'[k] = receipts[k] /\ Honest(k)
    BY DEF ReceiptsMove, Types, TypeOK, Dispatching
  <1>2. CASE receipts[k].status = "none"
    BY <1>1, <1>2 DEF Honest
  <1>3. CASE receipts[k].status # "none"
    <2>1. PICK d \in Calls \ {c} : d = receipts[k].by /\ Key(d) = k
      BY <1>1, <1>3 DEF Honest
    <2>2. OldNews(d)
      BY OthersNews DEF Turn
    <2>3. (AllApplied(d) => AllApplied(d)') /\ (NonePending(d) => NonePending(d)')
      BY <2>2, NewsOf
    <2>4. receipts'[k].by = d /\ receipts'[k].status = receipts[k].status
      BY <1>1, <2>1
    <2>5. (AllApplied(receipts[k].by)' <=> AllApplied(d)')
      BY <2>4 DEF AllApplied, Piece
    <2>6. (NonePending(receipts[k].by)' <=> NonePending(d)')
      BY <2>4 DEF NonePending
    <2>7. QED
      BY <1>1, <2>1, <2>3, <2>4, <2>5, <2>6 DEF Honest
  <1>4. QED
    BY <1>2, <1>3

-----------------------------------------------------------------------------
(* The caller, one lemma for each kind of step *)

LEMMA OwnStep ==
  ASSUME Types, Dispatching, NEW c \in Calls, Turn(c), ReceiptsMove(c), WireMove(c),
         Apart', Standing(c)', Honest(Key(c))'
  PROVE  Dispatching'
  <1>1. \A d \in Calls : Standing(d)'
    BY OthersStand
  <1>2. \A k \in Keys : Honest(k)'
    BY OthersHonest
  <1>3. QED
    BY <1>1, <1>2 DEF Dispatching

LEMMA SameNews ==
  ASSUME NEW c \in Calls, UNCHANGED <<wire, applied, refused>>
  PROVE  /\ OldNews(c) /\ Of(c)' = Of(c)
         /\ AllApplied(c)' <=> AllApplied(c)
         /\ NonePending(c)' <=> NonePending(c)
         /\ Apart' <=> Apart
  BY DEF OldNews, Of, Sent, AllApplied, NonePending, Apart, Piece

LEMMA KeyOf ==
  ASSUME Types, NEW c \in Calls
  PROVE  Key(c) \in Keys /\ (c \in Responders => Key(c) = Action) /\ receipts[Key(c)].status \in Statuses
  BY CallAssumption DEF Key, Keys, Types, TypeOK, Statuses

\* A step that begins nothing, sends nothing and settles nothing.
AsideStep(c) ==
  /\ pc'[c] \notin {"idle", "discovering", "sending", "dispatched"}
  /\ pc'[c] = "scope" => pc[c] = "idle"
  /\ c \in Responders => /\ held'[c] \in {held[c], "none", receipts[Action].status}
                         /\ answer'[c] \in {answer[c], held[c], "error"}
  /\ UNCHANGED <<receipts, wire>>

LEMMA Aside ==
  ASSUME Types, Dispatching, NEW c \in Calls, Turn(c), AsideStep(c)
  PROVE  Dispatching'
  <1>1. Standing(c) /\ Apart /\ Honest(Key(c))
    BY KeyOf DEF Dispatching
  <1>2. UNCHANGED <<wire, applied, refused, receipts>>
    BY DEF Turn, AsideStep
  <1>3. (c \in Responders => Known(c, held[c]) /\ Known(c, answer[c]))'
    BY <1>1, <1>2, KeyOf DEF AsideStep, Standing, Known
  <1>4. \A m \in Of(c) : m.part = "message" =>
          {"runtime", "interaction"} \subseteq {n.part : n \in {n \in applied' : n.by = c}}
    BY <1>1, <1>2 DEF Standing
  <1>5. Standing(c)'
    BY <1>1, <1>2, <1>3, <1>4, SameNews DEF Standing, AsideStep
  <1>6. Honest(Key(c))'
    BY <1>1, <1>2 DEF Honest, AllApplied, NonePending, Piece
  <1>7. QED
    BY <1>1, <1>2, <1>5, <1>6, OwnStep, SameNews DEF ReceiptsMove, WireMove

BeginStep(c) ==
  /\ pc[c] \in {"idle", "scope"} /\ (c \in Responders => receipts[Action].status = "none")
  /\ receipts' = [receipts EXCEPT ![Key(c)] = NewReceipt(c)]
  /\ pc'[c] = "discovering"
  /\ UNCHANGED <<wire, held, answer>>

LEMMA Begins ==
  ASSUME Types, Dispatching, NEW c \in Calls, Turn(c), BeginStep(c)
  PROVE  Dispatching'
  <1>1. Standing(c) /\ Apart /\ Of(c) = {}
    BY DEF Dispatching, Standing, BeginStep
  <1>2. UNCHANGED <<wire, applied, refused>>
    BY DEF Turn, BeginStep
  <1>3. receipts'[Key(c)].by = c /\ receipts'[Key(c)].status = "prepared"
    BY KeyOf DEF BeginStep, NewReceipt, Types, TypeOK
  <1>4. (c \in Responders => Known(c, held[c]) /\ Known(c, answer[c]))'
    BY <1>1, KeyOf DEF BeginStep, Standing, Known
  <1>5. Standing(c)'
    BY <1>1, <1>2, <1>3, <1>4, SameNews DEF Standing, BeginStep
  <1>6. Honest(Key(c))'
    BY <1>3 DEF Honest
  <1>7. QED
    BY <1>1, <1>2, <1>5, <1>6, OwnStep, SameNews DEF ReceiptsMove, WireMove, BeginStep

SettleStep(c) ==
  /\ pc[c] = "dispatched" /\ pc'[c] = "environment"
  /\ receipts' = [receipts EXCEPT ![Key(c)].status = got[c]]
  /\ held'[c] = got[c]
  /\ UNCHANGED <<wire, answer>>

LEMMA Settles ==
  ASSUME Types, Dispatching, NEW c \in Calls, Turn(c), SettleStep(c)
  PROVE  Dispatching'
  <1>1. /\ Standing(c) /\ Apart
        /\ receipts[Key(c)].by = c /\ receipts[Key(c)].status = "prepared"
        /\ got[c] \in Outcomes
    BY DEF Dispatching, Standing, SettleStep, Types, Steady
  <1>2. UNCHANGED <<wire, applied, refused>>
    BY DEF Turn, SettleStep
  <1>3. receipts'[Key(c)].by = c /\ receipts'[Key(c)].status = got[c]
    BY <1>1, KeyOf DEF SettleStep, Types, TypeOK
  <1>4. (c \in Responders => Known(c, held[c]) /\ Known(c, answer[c]))'
    BY <1>1, <1>3, KeyOf DEF SettleStep, Standing, Known
  <1>5. \A m \in Of(c) : m.part = "message" =>
          {"runtime", "interaction"} \subseteq {n.part : n \in {n \in applied' : n.by = c}}
    BY <1>1, <1>2 DEF Standing
  <1>6. Standing(c)'
    BY <1>1, <1>2, <1>3, <1>4, <1>5, SameNews DEF Standing, SettleStep, Outcomes
  <1>7. Honest(Key(c))'
    <2>1. /\ got[c] = "accepted" => AllApplied(c)'
          /\ got[c] = "rejected" => NonePending(c)'
      BY <1>1, <1>2, SameNews DEF Standing, SettleStep
    <2>2. /\ AllApplied(receipts[Key(c)].by)' <=> AllApplied(c)'
          /\ NonePending(receipts[Key(c)].by)' <=> NonePending(c)'
      BY <1>3 DEF AllApplied, NonePending, Piece
    <2>3. QED
      BY <1>3, <2>1, <2>2 DEF Honest
  <1>8. QED
    BY <1>1, <1>2, <1>6, <1>7, OwnStep, SameNews DEF ReceiptsMove, WireMove, SettleStep

SendStep(c, v, n) ==
  /\ \/ pc[c] = "discovering" /\ n = 1
     \/ pc[c] = "sending" /\ v = version[c] /\ n = part[c] + 1 /\ Command(c) \in applied
  /\ SendPart(c, v, n)
  /\ UNCHANGED <<receipts, held, answer>>

LEMMA Sends ==
  ASSUME Types, Dispatching, NEW c \in Calls, Turn(c),
         NEW v \in Supported, NEW n \in 1 .. Len(Parts(c, v)), SendStep(c, v, n)
  PROVE  Dispatching'
  <1> DEFINE m == Piece(c, v, n)
  <1>1. /\ Standing(c) /\ Apart /\ n \in 1 .. 3
        /\ receipts[Key(c)].by = c /\ receipts[Key(c)].status = "prepared"
    BY PartsShape DEF Dispatching, Standing, SendStep
  <1>2. /\ wire' = wire \cup {m} /\ UNCHANGED <<applied, refused, receipts>>
        /\ m.by = c /\ m.part = Parts(c, v)[n]
    BY DEF Turn, SendStep, SendPart, Piece
  <1>3. /\ Of(c) = {Piece(c, v, i) : i \in 1 .. n - 1}
        /\ \A i \in 1 .. n - 1 : Piece(c, v, i) \in applied
    <2>1. CASE pc[c] = "discovering" /\ n = 1
      <3>1. 1 .. n - 1 = {}
        BY <2>1
      <3>2. QED
        BY <1>1, <2>1, <3>1 DEF Standing
    <2>2. CASE pc[c] = "sending" /\ v = version[c] /\ n = part[c] + 1 /\ Command(c) \in applied
      <3>1. part[c] \in 1 .. 3 /\ part[c] = n - 1
        <4>1. part[c] \in 1 .. Len(Parts(c, version[c])) /\ version[c] \in Supported
          BY <2>2 DEF Types, Steady
        <4>2. part[c] \in 1 .. 3
          BY <4>1, PartsShape
        <4>3. QED
          BY <1>1, <2>2, <4>2
      <3>2. \A i \in 1 .. n - 1 : i = part[c] \/ i \in 1 .. part[c] - 1
        BY <3>1
      <3>3. Piece(c, v, part[c]) \in applied
        BY <2>2 DEF Command, Piece
      <3>4. QED
        BY <1>1, <2>2, <3>1, <3>2, <3>3 DEF Standing
    <2>3. QED
      BY <2>1, <2>2 DEF SendStep
  <1>4. m \notin Sent
    <2>1. \A i \in 1 .. n - 1 : Parts(c, v)[i] # Parts(c, v)[n]
      BY PartsShape
    <2>2. \A i \in 1 .. n - 1 : Piece(c, v, i) # m
      BY <2>1 DEF Piece
    <2>3. QED
      BY <1>2, <1>3, <2>2 DEF Of
  <1>5. Of(c)' = {Piece(c, v, i) : i \in 1 .. n}
    <2>1. Of(c)' = Of(c) \cup {m}
      BY <1>2 DEF Of, Sent
    <2>2. \A i : i \in 1 .. n <=> i \in 1 .. n - 1 \/ i = n
      BY <1>1
    <2>3. QED
      BY <1>3, <2>1, <2>2
  <1>6. Apart'
    BY <1>1, <1>2, <1>4 DEF Apart, Sent
  <1>7. ASSUME NEW w \in Of(c)', w.part = "message"
        PROVE  {"runtime", "interaction"} \subseteq {i.part : i \in {i \in applied' : i.by = c}}
    <2>1. CASE w \in Of(c)
      BY <1>1, <1>2, <1>7, <2>1 DEF Standing
    <2>2. CASE w = m
      <3>1. n = 3 /\ Parts(c, v)[1] = "runtime" /\ Parts(c, v)[2] = "interaction"
        BY <1>2, <1>7, <2>2, PartsShape
      <3>2. Piece(c, v, 1) \in applied' /\ Piece(c, v, 2) \in applied'
        BY <1>2, <1>3, <3>1
      <3>3. /\ Piece(c, v, 1).by = c /\ Piece(c, v, 1).part = "runtime"
            /\ Piece(c, v, 2).by = c /\ Piece(c, v, 2).part = "interaction"
        BY <3>1 DEF Piece
      <3>4. QED
        BY <3>2, <3>3
    <2>3. QED
      BY <1>2, <1>7, <2>1, <2>2 DEF Of, Sent
  <1>8. (c \in Responders => Known(c, held[c]) /\ Known(c, answer[c]))'
    BY <1>1 DEF SendStep, Standing, Known
  <1>9. Standing(c)'
    <2>1. pc'[c] = "sending" /\ version'[c] = v /\ part'[c] = n
      BY DEF SendStep, SendPart, Types, TypeOK, ClientTypeOK
    <2>2. Of(c)' = {Piece(c, version[c], i)' : i \in 1 .. part'[c]}
      BY <1>5, <2>1 DEF Piece
    <2>3. (\A i \in 1 .. part[c] - 1 : Piece(c, version[c], i) \in applied)'
      BY <1>2, <1>3, <2>1 DEF Piece
    <2>4. QED
      BY <1>1, <1>2, <1>7, <1>8, <2>1, <2>2, <2>3 DEF Standing
  <1>10. Honest(Key(c))'
    BY <1>1, <1>2, KeyOf DEF Honest
  <1>11. WireMove(c)
    BY <1>2 DEF WireMove, SendStep
  <1>12. QED
    BY <1>2, <1>6, <1>9, <1>10, <1>11, OwnStep DEF ReceiptsMove

EndsStep(c, result) ==
  /\ pc[c] \in {"discovering", "sending"} /\ pc'[c] = "dispatched" /\ got'[c] = result
  /\ UNCHANGED <<wire, receipts, held, answer>>

LEMMA Ends ==
  ASSUME Types, Dispatching, NEW c \in Calls, Turn(c), NEW result, EndsStep(c, result),
         result = "accepted" => AllApplied(c), result = "rejected" => NonePending(c)
  PROVE  Dispatching'
  <1>1. /\ Standing(c) /\ Apart
        /\ receipts[Key(c)].by = c /\ receipts[Key(c)].status = "prepared"
    BY DEF Dispatching, Standing, EndsStep
  <1>2. UNCHANGED <<wire, applied, refused, receipts>>
    BY DEF Turn, EndsStep
  <1>3. (c \in Responders => Known(c, held[c]) /\ Known(c, answer[c]))'
    BY <1>1 DEF EndsStep, Standing, Known
  <1>4. \A m \in Of(c) : m.part = "message" =>
          {"runtime", "interaction"} \subseteq {n.part : n \in {n \in applied' : n.by = c}}
    BY <1>1, <1>2 DEF Standing
  <1>5. Standing(c)'
    BY <1>1, <1>2, <1>3, <1>4, SameNews DEF Standing, EndsStep
  <1>6. Honest(Key(c))'
    BY <1>1, <1>2, KeyOf DEF Honest
  <1>7. QED
    BY <1>1, <1>2, <1>5, <1>6, OwnStep, SameNews DEF ReceiptsMove, WireMove

-----------------------------------------------------------------------------
(* Every action of a call is one of those steps. *)

LEMMA ReuseAside ==
  ASSUME Types, NEW c \in Responders, Reuse(c), UNCHANGED <<receipts, wire>>
  PROVE  AsideStep(c)
  <1>1. c \in Calls /\ pc \in [Calls -> Stages] /\ held \in [Calls -> Statuses]
        /\ answer \in [Responders -> Statuses \cup {"error"}]
    BY CallAssumption DEF Types
  <1>2. CASE Finish(c, "error")
    BY <1>1, <1>2 DEF Finish, AsideStep
  <1>3. CASE /\ held' = [held EXCEPT ![c] = receipts[Action].status]
             /\ AskEnvironment(c) \/ StartRead(c)
             /\ UNCHANGED answer
    BY <1>1, <1>3 DEF AskEnvironment, StartRead, Discover, Request, EndRead, AsideStep
  <1>4. QED
    BY <1>2, <1>3 DEF Reuse

LEMMA RespondMoves ==
  ASSUME Types, NEW c \in Responders, Respond(c) \/ Scope(c)
  PROVE  AsideStep(c) \/ BeginStep(c)
  <1>1. /\ c \in Calls /\ pc \in [Calls -> Stages] /\ held \in [Calls -> Statuses]
        /\ answer \in [Responders -> Statuses \cup {"error"}]
        /\ UNCHANGED wire
    BY CallAssumption DEF Types, Respond, Scope, t3Vars
  <1>2. CASE Reuse(c) /\ UNCHANGED receipts
    BY <1>1, <1>2, ReuseAside
  <1>3. CASE pc[c] = "idle" /\ pc' = [pc EXCEPT ![c] = "scope"] /\ UNCHANGED <<held, answer, receipts>>
    BY <1>1, <1>3 DEF AsideStep
  <1>4. CASE Finish(c, "error") /\ UNCHANGED receipts
    BY <1>1, <1>4 DEF Finish, AsideStep
  <1>5. CASE /\ pc[c] = "scope" /\ receipts[Action].status = "none"
             /\ receipts' = [receipts EXCEPT ![Action] = NewReceipt(c)]
             /\ StartDispatch(c)
             /\ UNCHANGED <<held, answer>>
    BY <1>1, <1>5, KeyOf DEF StartDispatch, Discover, BeginStep
  <1>6. QED
    BY <1>2, <1>3, <1>4, <1>5 DEF Respond, Scope, Begin

LEMMA TurnMoves ==
  ASSUME Types, NEW c \in Sending, List(c) \/ SendTurn(c)
  PROVE  AsideStep(c) \/ BeginStep(c)
  <1>1. c \in Calls /\ c \notin Responders /\ pc \in [Calls -> Stages] /\ UNCHANGED wire
    BY CallAssumption, VersionAssumption DEF Types, List, SendTurn, t3Vars
  <1>2. CASE List(c)
    BY <1>1, <1>2 DEF List, StartRead, Discover, Request, EndRead, AsideStep, actionVars
  <1>3. CASE SendTurn(c)
    BY <1>1, <1>3 DEF SendTurn, StartDispatch, Discover, BeginStep, Key
  <1>4. QED
    BY <1>2, <1>3

LEMMA EndMoves ==
  ASSUME Types, NEW c \in Calls, Settle(c) \/ Resume(c) \/ Conclude(c)
  PROVE  AsideStep(c) \/ SettleStep(c)
  <1>1. /\ pc \in [Calls -> Stages] /\ held \in [Calls -> Statuses]
        /\ answer \in [Responders -> Statuses \cup {"error"}]
        /\ UNCHANGED wire
    BY DEF Types, Settle, Resume, Conclude, t3Vars
  <1>2. CASE /\ pc[c] = "dispatched" /\ receipts' = [receipts EXCEPT ![Key(c)].status = got[c]]
             /\ held' = [held EXCEPT ![c] = got[c]]
             /\ AskEnvironment(c) /\ UNCHANGED answer
    BY <1>1, <1>2 DEF SettleStep, AskEnvironment, Discover
  <1>3. CASE \E a \in {"error", held[c]} : Finish(c, a) /\ UNCHANGED receipts
    BY <1>1, <1>3 DEF Finish, AsideStep
  <1>4. CASE (AskEnvironment(c) \/ StartRead(c)) /\ UNCHANGED <<held, answer, receipts>>
    BY <1>1, <1>4 DEF AskEnvironment, StartRead, Discover, Request, EndRead, AsideStep
  <1>5. QED
    BY <1>2, <1>3, <1>4 DEF Settle, Resume, Conclude

LEMMA ReadMoves ==
  ASSUME Types, NEW c \in Calls, Reads(c), UNCHANGED actionVars
  PROVE  AsideStep(c)
  <1>1. pc \in [Calls -> Stages] /\ UNCHANGED <<wire, receipts, held, answer>>
    BY DEF Types, Reads, Learn, Answer, ReadBreaks, ReadArrives, Checked, t3Vars, actionVars
  <1>2. pc'[c] \in {"learning", "reading", "answered", "checking", "read"}
    BY <1>1 DEF Reads, Learn, Answer, ReadBreaks, ReadArrives, CheckAgain, Checked,
                Discover, Request, EndRead
  <1>3. QED
    BY <1>1, <1>2 DEF AsideStep

LEMMA EndDispatchEnds ==
  ASSUME Types, NEW c \in Calls, NEW result, pc[c] \in {"discovering", "sending"},
         EndDispatch(c, result), UNCHANGED actionVars
  PROVE  EndsStep(c, result)
  BY DEF EndDispatch, EndsStep, Types, TypeOK, ClientTypeOK, actionVars

LEMMA DispatchLearnsDispatching ==
  ASSUME Types, Dispatching, NEW c \in Calls, Turn(c), DispatchLearns(c), UNCHANGED actionVars
  PROVE  Dispatching'
  <1>1. CASE Learned(c) # 0
    <2>1. Learned(c) \in Supported /\ SendPart(c, Learned(c), 1) /\ pc[c] = "discovering"
      BY <1>1 DEF DispatchLearns, Learned
    <2>2. 1 \in 1 .. Len(Parts(c, Learned(c)))
      BY <2>1, PartsShape
    <2>3. SendStep(c, Learned(c), 1)
      BY <2>1 DEF SendStep, actionVars
    <2>4. QED
      BY <2>1, <2>2, <2>3, Sends
  <1>2. CASE Learned(c) = 0
    <2>1. EndsStep(c, "rejected")
      BY <1>2, EndDispatchEnds DEF DispatchLearns
    <2>2. NonePending(c)
      BY DEF Dispatching, Standing, DispatchLearns, NonePending, Of, Sent
    <2>3. QED
      BY <2>1, <2>2, Ends
  <1>3. QED
    BY <1>1, <1>2

LEMMA AcknowledgedDispatching ==
  ASSUME Types, Dispatching, NEW c \in Calls, Turn(c), Acknowledged(c), UNCHANGED actionVars
  PROVE  Dispatching'
  <1> DEFINE v == version[c]
             n == part[c]
  <1>1. /\ pc[c] = "sending" /\ Command(c) \in applied /\ Command(c) = Piece(c, v, n)
        /\ v \in Supported /\ n \in 1 .. Len(Parts(c, v)) /\ Standing(c)
    BY DEF Acknowledged, Types, Steady, Dispatching, Command, Piece
  <1>2. Len(Parts(c, v)) \in 1 .. 3 /\ DOMAIN Parts(c, v) = 1 .. Len(Parts(c, v))
    BY <1>1, PartsShape
  <1>3. CASE n < Len(Parts(c, v))
    <2>1. n + 1 \in 1 .. Len(Parts(c, v))
      BY <1>1, <1>2, <1>3
    <2>2. SendStep(c, v, n + 1)
      BY <1>1, <1>3 DEF SendStep, Acknowledged, actionVars
    <2>3. QED
      BY <1>1, <2>1, <2>2, Sends
  <1>4. CASE ~(n < Len(Parts(c, v)))
    <2>1. EndsStep(c, "accepted")
      BY <1>1, <1>4, EndDispatchEnds DEF Acknowledged
    <2>2. \A i \in 1 .. Len(Parts(c, v)) : i = n \/ i \in 1 .. n - 1
      BY <1>1, <1>2, <1>4
    <2>3. \A i \in DOMAIN Parts(c, v) : Piece(c, v, i) \in applied
      BY <1>1, <1>2, <2>2 DEF Standing
    <2>4. AllApplied(c)
      BY <1>1, <2>3 DEF AllApplied
    <2>5. QED
      BY <2>1, <2>4, Ends
  <1>5. QED
    BY <1>3, <1>4

\* Under protocol 1 a command has one part: if T3 refused it, T3 has nothing.
LEMMA RefusedDispatching ==
  ASSUME Types, Dispatching, NEW c \in Calls, Turn(c), Refused(c) \/ Unanswered(c),
         UNCHANGED actionVars
  PROVE  Dispatching'
  <1>1. pc[c] = "sending" /\ Standing(c) /\ Apart
    BY DEF Refused, Unanswered, Dispatching
  <1>2. CASE EndDispatch(c, "uncertain")
    BY <1>1, <1>2, EndDispatchEnds, Ends
  <1>3. CASE Refused(c) /\ version[c] = 1
    <2>1. EndsStep(c, "rejected")
      BY <1>1, <1>3, EndDispatchEnds DEF Refused, Refusal
    <2>2. Len(Parts(c, 1)) = 1 /\ part[c] \in 1 .. Len(Parts(c, 1))
      BY <1>1, <1>3, PartsShape DEF Types, Steady, Supported
    <2>3. part[c] = 1
      <3>1. part[c] \in 1 .. 1
        BY <2>2, Zenon
      <3>2. QED
        BY <3>1
    <2>4. Of(c) = {Piece(c, 1, 1)} /\ Piece(c, 1, 1) \in refused
      BY <1>1, <1>3, <2>3 DEF Standing, Refused, Command, Piece
    <2>5. NonePending(c)
      BY <1>1, <2>4 DEF NonePending, Of, Sent, Apart
    <2>6. QED
      BY <2>1, <2>5, Ends
  <1>4. QED
    BY <1>2, <1>3 DEF Refused, Unanswered, Refusal

LEMMA CallDispatching ==
  ASSUME Types, Dispatching, NEW c \in Calls, CallStep(c)
  PROVE  Dispatching'
  <1>1. Turn(c)
    BY CallTurn
  <1>2. CASE Dispatches(c) /\ UNCHANGED actionVars
    BY <1>1, <1>2, DispatchLearnsDispatching, AcknowledgedDispatching, RefusedDispatching
    DEF Dispatches
  <1>3. CASE ~(Dispatches(c) /\ UNCHANGED actionVars)
    <2>1. AsideStep(c) \/ BeginStep(c) \/ SettleStep(c)
      BY <1>3, RespondMoves, TurnMoves, EndMoves, ReadMoves DEF CallStep
    <2>2. QED
      BY <1>1, <2>1, Aside, Begins, Settles
  <1>4. QED
    BY <1>2, <1>3

\* T3 and the discovery leave calls and receipts alone.
LEMMA T3Dispatching ==
  ASSUME Types, Dispatching, Discovered \/ DiscoveryFails \/ T3, UNCHANGED actionVars
  PROVE  Dispatching'
  <1>1. UNCHANGED <<wire, applied, refused>> \/ \E m \in wire : Handle(m)
    BY DEF Discovered, DiscoveryFails, EndDiscovery, T3, Switch, Describe, t3Vars
  <1>2. Apart' /\ \A d \in Calls : OldNews(d)
    BY <1>1 DEF Handle, OldNews, Of, Sent, Dispatching, Apart
  <1>3. \A d \in Calls : Kept(d)
    BY DEF Discovered, DiscoveryFails, EndDiscovery, T3, Switch, Handle, Describe,
           readVars, actionVars, Kept
  <1>4. \A d \in Calls : Standing(d)'
    BY <1>2, <1>3, KeptStands DEF Dispatching
  <1>5. ASSUME NEW k \in Keys
        PROVE  Honest(k)'
    <2>1. Honest(k) /\ receipts'[k] = receipts[k]
      BY DEF Dispatching, actionVars
    <2>2. CASE receipts[k].status = "none"
      BY <2>1, <2>2 DEF Honest
    <2>3. CASE receipts[k].status # "none"
      <3>1. PICK d \in Calls : d = receipts[k].by
        BY <2>1, <2>3 DEF Honest
      <3>2. (AllApplied(d) => AllApplied(d)') /\ (NonePending(d) => NonePending(d)')
        BY <1>2, NewsOf
      <3>3. /\ AllApplied(receipts[k].by)' <=> AllApplied(d)'
            /\ NonePending(receipts[k].by)' <=> NonePending(d)'
        BY <2>1, <3>1 DEF AllApplied, NonePending, Piece
      <3>4. QED
        BY <2>1, <3>1, <3>2, <3>3 DEF Honest
    <2>4. QED
      BY <2>2, <2>3
  <1>6. QED
    BY <1>2, <1>4, <1>5 DEF Dispatching

LEMMA CrashDispatching ==
  ASSUME Types, Dispatching, Crash
  PROVE  Dispatching'
  <1>1. UNCHANGED <<wire, applied, refused, answer>>
    BY DEF Crash, t3Vars
  <1>2. \A k \in Keys : /\ receipts'[k].by = receipts[k].by
                        /\ receipts'[k].status = (IF receipts[k].status = "prepared"
                                                  THEN "uncertain" ELSE receipts[k].status)
    BY DEF Crash, Types, TypeOK
  <1>3. ASSUME NEW d \in Calls
        PROVE  Standing(d)'
    <2>1. /\ pc'[d] \in {"idle", "done"} /\ (pc'[d] = "idle" => pc[d] = "idle")
          /\ held'[d] = "none"
      BY DEF Crash
    <2>2. Standing(d) /\ Key(d) \in Keys
      BY KeyOf DEF Dispatching
    <2>3. \A m \in Of(d) : m.part = "message" =>
            {"runtime", "interaction"} \subseteq {n.part : n \in {n \in applied' : n.by = d}}
      BY <1>1, <2>2 DEF Standing
    <2>4. (d \in Responders => Known(d, held[d]) /\ Known(d, answer[d]))'
      BY <1>1, <1>2, <2>1, <2>2 DEF Standing, Known
    <2>5. QED
      BY <1>1, <1>2, <2>1, <2>2, <2>3, <2>4, SameNews DEF Standing
  <1>4. ASSUME NEW k \in Keys
        PROVE  Honest(k)'
    <2>1. Honest(k)
      BY DEF Dispatching
    <2>2. /\ AllApplied(receipts[k].by)' <=> AllApplied(receipts[k].by)
          /\ NonePending(receipts[k].by)' <=> NonePending(receipts[k].by)
      BY <1>1, <1>2 DEF AllApplied, NonePending, Piece
    <2>3. QED
      BY <1>2, <2>1, <2>2 DEF Honest
  <1>5. QED
    BY <1>1, <1>3, <1>4 DEF Dispatching, Apart

LEMMA InitDispatching == Init => Dispatching
  <1> SUFFICES ASSUME Init PROVE Dispatching
    OBVIOUS
  <1>1. Sent = {} /\ wire = {} /\ applied = {} /\ refused = {}
    BY DEF Init, ClientInit, Sent
  <1>2. \A c \in Calls : Of(c) = {}
    BY <1>1 DEF Of
  <1>3. \A k \in Keys : receipts[k].status = "none"
    BY DEF Init, NoReceipt
  <1>4. \A c \in Calls : pc[c] = "idle" /\ held[c] = "none" /\ (c \in Responders => answer[c] = "none")
    BY DEF Init, ClientInit
  <1>5. QED
    BY <1>1, <1>2, <1>3, <1>4 DEF Dispatching, Apart, Honest, Standing, Known

LEMMA DispatchingStep == Types /\ Dispatching /\ [Next]_allVars => Dispatching'
  <1>1. ASSUME Types, Dispatching, UNCHANGED allVars
        PROVE  Dispatching'
    <2>1. UNCHANGED <<wire, applied, refused>> /\ UNCHANGED receipts
          /\ \A d \in Calls : Kept(d) /\ OldNews(d) /\ Standing(d)
      BY <1>1 DEF allVars, clientVars, t3Vars, readVars, actionVars, Kept, OldNews, Of, Sent,
                  Dispatching
    <2>2. \A d \in Calls : Standing(d)'
      BY <2>1, KeptStands
    <2>3. \A k \in Keys : Honest(k)'
      BY <1>1, <2>1 DEF Dispatching, Honest, AllApplied, NonePending, Piece
    <2>4. QED
      BY <1>1, <2>1, <2>2, <2>3 DEF Dispatching, Apart
  <1>2. ASSUME Types, Dispatching, Next
        PROVE  Dispatching'
    BY <1>2, Steps, CallDispatching, T3Dispatching, CrashDispatching DEF Shared
  <1>3. QED
    BY <1>1, <1>2

LEMMA DispatchingHonest == Types /\ Dispatching => DispatchesAreHonest
  <1> SUFFICES ASSUME Types, Dispatching PROVE DispatchesAreHonest
    OBVIOUS
  <1>1. \A m \in Sent : m.by \in Calls /\ m \in Of(m.by)
    BY DEF Types, TypeOK, ClientTypeOK, Sent, Commands, Of
  <1>2. OneSends
    BY <1>1 DEF OneSends, Dispatching, Standing
  <1>3. ASSUME NEW k \in Keys
        PROVE  /\ receipts[k].status = "accepted" =>
                    \E v \in Supported : \A n \in DOMAIN Parts(receipts[k].by, v) :
                      [by |-> receipts[k].by, version |-> v,
                       part |-> Parts(receipts[k].by, v)[n]] \in applied
               /\ receipts[k].status = "rejected" =>
                    \A m \in wire \cup applied : m.by # receipts[k].by
    BY DEF Dispatching, Honest, AllApplied, NonePending, Piece
  <1>4. ASSUME NEW c \in Responders
        PROVE  answer[c] \in {"accepted", "rejected"} => answer[c] = receipts[Action].status
    BY CallAssumption, KeyOf DEF Dispatching, Standing, Known
  <1>5. QED
    BY <1>2, <1>3, <1>4 DEF DispatchesAreHonest

\* One call sends the command of a key, part after part; a receipt or an answer
\* that says accepted or rejected is true of T3.
THEOREM DispatchesTellTheTruth == Spec => []DispatchesAreHonest
  <1>1. Init => Types /\ Dispatching
    BY InitTypes, InitDispatching
  <1>2. Types /\ Dispatching /\ [Next]_allVars => (Types /\ Dispatching)'
    BY TypesStep, DispatchingStep
  <1>3. QED
    BY <1>1, <1>2, DispatchingHonest, PTL DEF Spec

-----------------------------------------------------------------------------
(* What reads go by *)

\* What ReadsRecover says of the step of one call.
Recovers(c) ==
  pc[c] # "read" /\ pc'[c] = "read" =>
    /\ got'[c] = "incompatible" =>
         \/ switches > mark[c] \/ speaks \notin Supported
         \/ pc[c] = "checking" /\ learned[c] = 0
    /\ got'[c] = "unsupported" =>
         \/ speaks \notin Supported
         \/ switches > IF pc[c] = "learning" THEN mark[c] ELSE asked

LEMMA TurnDiscovering ==
  ASSUME Types, Discovering, NEW c \in Calls, Turn(c)
  PROVE  Discovering'
  BY VersionAssumption DEF Types, TypeOK, ClientTypeOK, Turn, CacheTurn, Discovering, NoDiscovery

LEMMA OthersFresh ==
  ASSUME Types, Reading, NEW c \in Calls, Turn(c), NEW d \in Calls \ {c}, Looking(d)'
  PROVE  Fresh(d)'
  <1>1. /\ pc'[d] = pc[d] /\ version'[d] = version[d] /\ attempt'[d] = attempt[d]
        /\ got'[d] = got[d] /\ mark'[d] = mark[d] /\ learned'[d] = learned[d]
        /\ d \in waits' <=> d \in waits
        /\ UNCHANGED <<speaks, switches, cached>>
    BY DEF Turn, CacheTurn, ReadTurn, Marks, Only, Types, TypeOK, ClientTypeOK
  <1>2. Fresh(d)
    BY <1>1 DEF Reading, Looking
  <1>3. discovery' # NoDiscovery => mark[d] <= discovery'.since
    BY <1>2 DEF Turn, CacheTurn, Fresh
  <1>4. (mark[d] = switches => Current(d))'
    BY <1>1, <1>2 DEF Fresh, Current
  <1>5. QED
    BY <1>1, <1>2, <1>3, <1>4 DEF Fresh

\* A read begins with what is cached, or with a discovery.
LEMMA StartReadFresh ==
  ASSUME Types, Reading, NEW c \in Calls, Turn(c), attempt[c] = 0, pc[c] # "learning",
         StartRead(c)
  PROVE  (Looking(c)' => Fresh(c)') /\ Recovers(c)
  <1>1. /\ mark'[c] = (IF discovery = NoDiscovery THEN switches ELSE discovery.since)
        /\ UNCHANGED <<speaks, switches, cached>>
    BY DEF StartRead, Turn, CacheTurn, Types, TypeOK, ClientTypeOK
  <1>2. /\ discovery # NoDiscovery => discovery.since <= switches
        /\ switches \in Nat /\ discovery.since \in Nat
    BY VersionAssumption DEF Reading, Discovering, Types, TypeOK, ClientTypeOK
  <1>3. mark'[c] <= switches /\ (discovery' # NoDiscovery => mark'[c] <= discovery'.since)
    BY <1>1, <1>2 DEF Turn, CacheTurn
  <1>4. CASE cached = 0 /\ Discover(c, "learning") /\ UNCHANGED <<version, attempt, got>>
    <2>1. pc'[c] = "learning" /\ c \in waits' /\ attempt'[c] = 0
      BY <1>4 DEF Discover, Types
    <2>2. QED
      BY <1>1, <1>3, <1>4, <2>1 DEF Fresh, Current, Recovers
  <1>5. CASE cached \in Supported /\ Request(c, cached) /\ UNCHANGED cacheVars
    <2>1. pc'[c] = "reading" /\ attempt'[c] = 1 /\ version'[c] = cached
      BY <1>5 DEF Request, Types, TypeOK, ClientTypeOK
    <2>2. QED
      BY <1>1, <1>3, <2>1 DEF Fresh, Current, Recovers
  <1>6. CASE cached \notin Supported \cup {0} /\ EndRead(c, "unsupported")
    <2>1. pc'[c] = "read" /\ got'[c] = "unsupported"
      BY <1>6 DEF EndRead, Types, TypeOK, ClientTypeOK
    <2>2. speaks \notin Supported \/ asked # switches
      BY <1>6 DEF Reading, Discovering
    <2>3. asked \in Nat /\ switches \in Nat /\ asked <= switches
      BY VersionAssumption DEF Reading, Discovering, Types, TypeOK, ClientTypeOK
    <2>4. speaks \notin Supported \/ switches > asked
      BY <2>2, <2>3
    <2>5. QED
      BY <2>1, <2>4, Zenon DEF Looking, Recovers
  <1>7. QED
    BY <1>4, <1>5, <1>6 DEF StartRead

\* The steps of a read: what it goes by next is newer.
LEMMA ReadFresh ==
  ASSUME Types, Reading, NEW c \in Calls, Turn(c), Reads(c)
  PROVE  (Looking(c)' => Fresh(c)') /\ Recovers(c)
  <1> USE DEF Types, TypeOK, ClientTypeOK
  <1>1. /\ pc[c] \in {"learning", "reading", "answered", "checking"} /\ Fresh(c) /\ Steady(c)
        /\ UNCHANGED <<speaks, switches, cached>>
        /\ mark[c] \in Nat /\ switches \in Nat
    BY VersionAssumption
    DEF Reads, Learn, Answer, ReadBreaks, ReadArrives, Checked, Reading, Looking, Turn, CacheTurn
  <1>2. ASSUME UNCHANGED mark
        PROVE  mark'[c] <= switches' /\ (discovery' # NoDiscovery => mark'[c] <= discovery'.since)
    BY <1>1, <1>2 DEF Fresh, Turn, CacheTurn
  <1>3. CASE Learn(c)
    <2>1. UNCHANGED mark /\ pc[c] = "learning" /\ c \notin waits /\ attempt[c] = 0
      BY <1>1, <1>3 DEF Learn, Steady
    <2>2. CASE Learned(c) # 0 /\ Request(c, Learned(c))
      <3>1. pc'[c] = "reading" /\ attempt'[c] = 1 /\ version'[c] = learned[c] /\ learned[c] # 0
        BY <2>1, <2>2 DEF Request, Learned
      <3>2. QED
        BY <1>1, <1>2, <2>1, <3>1 DEF Fresh, Current, Recovers
    <2>3. CASE EndRead(c, "failed")
      BY <2>3 DEF EndRead, Looking, Recovers
    <2>4. CASE learned[c] \notin Supported \cup {0} /\ EndRead(c, "unsupported")
      <3>1. pc'[c] = "read" /\ got'[c] = "unsupported"
        BY <2>4 DEF EndRead
      <3>2. speaks \notin Supported \/ mark[c] # switches
        BY <1>1, <2>1, <2>4 DEF Fresh, Current
      <3>3. mark[c] <= switches
        BY <1>1 DEF Fresh
      <3>4. speaks \notin Supported \/ switches > mark[c]
        BY <1>1, <3>2, <3>3
      <3>5. QED
        BY <2>1, <3>1, <3>4, Zenon DEF Looking, Recovers
    <2>5. QED
      BY <1>3, <2>2, <2>3, <2>4 DEF Learn, Learned
  <1>4. CASE Answer(c)
    <2>1. /\ UNCHANGED <<mark, version, attempt>> /\ pc[c] = "reading" /\ pc'[c] = "answered"
          /\ got'[c] = "incompatible" <=> version[c] # speaks
      BY <1>4 DEF Answer
    <2>2. QED
      BY <1>1, <1>2, <2>1 DEF Fresh, Current, Recovers
  <1>5. CASE ReadBreaks(c)
    BY <1>5 DEF ReadBreaks, EndRead, Looking, Recovers
  <1>6. CASE ReadArrives(c)
    <2>1. pc[c] = "answered" /\ attempt[c] \in {1, 2}
      BY <1>1, <1>6 DEF ReadArrives, Steady
    <2>2. CASE /\ got[c] = "incompatible" /\ attempt[c] = 1 /\ UNCHANGED mark
               /\ Discover(c, "checking") /\ UNCHANGED <<version, attempt, got>>
      <3>1. pc'[c] = "checking" /\ c \in waits'
        BY <2>2 DEF Discover
      <3>2. QED
        BY <1>1, <1>2, <2>1, <2>2, <3>1 DEF Fresh, Current, Recovers
    <2>3. CASE /\ got[c] = "incompatible" /\ attempt[c] = 1 /\ UNCHANGED mark
               /\ cached # version[c] /\ Request(c, cached)
      <3>1. pc'[c] = "reading" /\ attempt'[c] = 2 /\ version'[c] = cached
        BY <2>3 DEF Request
      <3>2. QED
        BY <1>1, <1>2, <2>1, <2>3, <3>1 DEF Fresh, Current, Recovers
    <2>4. CASE EndRead(c, got[c]) /\ (cached \notin Supported \/ got[c] # "incompatible" \/ attempt[c] # 1)
      <3>1. pc'[c] = "read" /\ got'[c] = got[c]
        BY <2>4 DEF EndRead
      <3>2. ASSUME got[c] = "incompatible", attempt[c] = 2
            PROVE  switches > mark[c]
        <4>1. mark[c] # switches
          BY <1>1, <2>1, <3>2, Zenon DEF Fresh, Current
        <4>2. mark[c] <= switches
          BY <1>1, Zenon DEF Fresh
        <4>3. mark[c] \in Nat /\ switches \in Nat
          BY <1>1
        <4> HIDE DEF Types, TypeOK, ClientTypeOK
        <4>4. QED
          BY <4>1, <4>2, <4>3
      <3>3. ASSUME got[c] = "incompatible", attempt[c] = 1
            PROVE  switches > mark[c] \/ speaks \notin Supported
        <4>1. cached \notin Supported /\ version[c] \in Supported
          BY <1>1, <2>4, <3>3 DEF Steady, Looking
        <4>2. mark[c] # switches \/ speaks \notin Supported
          BY <1>1, <2>1, <3>3, <4>1 DEF Fresh, Current
        <4>3. mark[c] <= switches
          BY <1>1 DEF Fresh
        <4>4. QED
          BY <1>1, <4>2, <4>3
      <3>4. ~Looking(c)' /\ got[c] # "unsupported"
        BY <2>1, <3>1 DEF Looking, Steady
      <3>5. Recovers(c)
        BY <2>1, <2>4, <3>1, <3>2, <3>3, <3>4, Zenon DEF Recovers
      <3>6. QED
        BY <3>4, <3>5
    <2>5. QED
      BY <1>6, <2>2, <2>3, <2>4 DEF ReadArrives, CheckAgain
  <1>7. CASE Checked(c)
    <2>1. UNCHANGED mark /\ pc[c] = "checking" /\ c \notin waits /\ attempt[c] = 1
      BY <1>1, <1>7 DEF Checked, Steady
    <2>2. CASE Learned(c) # 0 /\ Request(c, Learned(c))
      <3>1. pc'[c] = "reading" /\ attempt'[c] = 2 /\ version'[c] = learned[c] /\ learned[c] # 0
        BY <2>1, <2>2 DEF Request, Learned
      <3>2. QED
        BY <1>1, <1>2, <2>1, <3>1 DEF Fresh, Current, Recovers
    <2>3. CASE EndRead(c, got[c]) /\ Learned(c) \in {0, version[c]}
      <3>1. pc'[c] = "read"
        BY <2>3 DEF EndRead
      <3>2. \/ learned[c] = 0 \/ learned[c] \notin Supported
            \/ learned[c] = version[c] /\ learned[c] # 0
        BY <2>3 DEF Learned, Supported
      <3>3. ASSUME learned[c] = version[c], learned[c] # 0
            PROVE  switches > mark[c]
        <4>1. mark[c] # switches
          BY <1>1, <2>1, <3>3, Zenon DEF Fresh, Current
        <4>2. mark[c] <= switches
          BY <1>1, Zenon DEF Fresh
        <4>3. mark[c] \in Nat /\ switches \in Nat
          BY <1>1
        <4> HIDE DEF Types, TypeOK, ClientTypeOK
        <4>4. QED
          BY <4>1, <4>2, <4>3
      <3>4. ASSUME learned[c] \notin Supported, learned[c] # 0
            PROVE  switches > mark[c] \/ speaks \notin Supported
        <4>1. mark[c] # switches \/ speaks \notin Supported
          BY <1>1, <2>1, <3>4 DEF Fresh, Current
        <4>2. mark[c] <= switches
          BY <1>1 DEF Fresh
        <4>3. QED
          BY <1>1, <4>1, <4>2
      <3>5. ~Looking(c)' /\ got'[c] # "unsupported"
        BY <1>1, <2>1, <2>3, <3>1 DEF Looking, Steady, EndRead
      <3>6. Recovers(c)
        BY <2>1, <3>2, <3>3, <3>4, <3>5, Zenon DEF Recovers
      <3>7. QED
        BY <3>5, <3>6
    <2>4. QED
      BY <1>7, <2>2, <2>3 DEF Checked
  <1>8. QED
    BY <1>3, <1>4, <1>5, <1>6, <1>7 DEF Reads

\* Other steps of a call do not read, or begin to.
Elsewhere(c) == ~Looking(c)' /\ ~(pc'[c] = "read" /\ got'[c] \in {"incompatible", "unsupported"})

LEMMA OtherMoves ==
  ASSUME Types, NEW c \in Calls, CallStep(c), ~(Reads(c) /\ UNCHANGED actionVars)
  PROVE  Elsewhere(c) \/ (StartRead(c) /\ attempt[c] = 0 /\ pc[c] # "learning")
  <1>1. pc \in [Calls -> Stages] /\ Steady(c)
    BY DEF Types
  <1>2. CASE \E a : Finish(c, a)
    BY <1>1, <1>2 DEF Finish, Elsewhere, Looking
  <1>3. CASE AskEnvironment(c) \/ StartDispatch(c)
    BY <1>1, <1>3 DEF AskEnvironment, StartDispatch, Discover, Elsewhere, Looking
  <1>4. CASE pc' = [pc EXCEPT ![c] = "scope"]
    BY <1>1, <1>4 DEF Elsewhere, Looking
  <1>5. CASE Dispatches(c)
    BY <1>1, <1>5 DEF Dispatches, DispatchLearns, Acknowledged, Refused, Unanswered,
                      SendPart, EndDispatch, Elsewhere, Looking
  <1>6. CASE StartRead(c) /\ pc[c] \in {"idle", "scope", "environment"}
    BY <1>1, <1>6 DEF Steady
  <1>7. QED
    BY <1>2, <1>3, <1>4, <1>5, <1>6
    DEF CallStep, Respond, Scope, Begin, Reuse, List, SendTurn, Settle, Resume, Conclude

LEMMA CallReading ==
  ASSUME Types, Reading, NEW c \in Calls, CallStep(c)
  PROVE  Reading' /\ \A d \in Calls : Recovers(d)
  <1>1. Turn(c)
    BY CallTurn
  <1>2. (Looking(c)' => Fresh(c)') /\ Recovers(c)
    <2>1. CASE Elsewhere(c)
      BY <2>1 DEF Elsewhere, Recovers
    <2>2. QED
      BY <1>1, <2>1, OtherMoves, StartReadFresh, ReadFresh
  <1>3. \A d \in Calls \ {c} : (Looking(d)' => Fresh(d)') /\ pc'[d] = pc[d]
    BY <1>1, OthersFresh DEF Turn, ReadTurn, Only, Types
  <1>4. Discovering'
    BY <1>1, TurnDiscovering DEF Reading
  <1>5. QED
    BY <1>2, <1>3, <1>4 DEF Reading, Recovers

\* A discovery that was asked since T3 has changed last tells what it speaks.
LEMMA DiscoveryReading ==
  ASSUME Types, Reading, Discovered \/ DiscoveryFails
  PROVE  Reading'
  <1>1. PICK v \in {0, discovery.version} :
          /\ EndDiscovery(v) /\ discovery # NoDiscovery
          /\ \/ UNCHANGED <<cached, asked>>
             \/ cached' = v /\ v = discovery.version /\ discovery.state = "told"
                /\ asked' = discovery.since
          /\ (v # 0 \/ cached' # cached) => (discovery.state = "told" /\ v = discovery.version)
    BY DEF Discovered, DiscoveryFails, NoDiscovery
  <1>2. /\ UNCHANGED <<speaks, switches, pc, version, attempt, got, mark>>
        /\ discovery' = NoDiscovery
        /\ \A d \in Calls : learned'[d] = (IF d \in waits THEN v ELSE learned[d])
    BY <1>1 DEF EndDiscovery, t3Vars, readVars
  <1>3. ASSUME NEW d \in Calls, Looking(d)
        PROVE  Fresh(d)'
    <2>1. Fresh(d) /\ mark[d] <= discovery.since /\ discovery.since <= switches
      BY <1>1, <1>3 DEF Reading, Fresh, Discovering
    <2>2. mark[d] \in Nat /\ switches \in Nat /\ discovery.since \in Nat
      BY VersionAssumption DEF Types, TypeOK, ClientTypeOK
    <2>3. ASSUME mark[d] = switches
          PROVE  Current(d)'
      <3>1. discovery.since = switches
        BY <2>1, <2>2, <2>3
      <3>2. v \in {0, speaks} /\ cached' \in {cached, speaks}
        BY <1>1, <3>1 DEF Reading, Discovering
      <3>3. Current(d)
        BY <2>1, <2>3 DEF Fresh
      <3>4. QED
        BY <1>2, <3>2, <3>3 DEF Current
    <2>4. QED
      BY <1>2, <2>1, <2>3 DEF Fresh
  <1>4. Discovering'
    BY <1>1, <1>2 DEF Reading, Discovering
  <1>5. QED
    BY <1>2, <1>3, <1>4 DEF Reading, Looking

LEMMA T3Reading ==
  ASSUME Types, Reading, T3
  PROVE  Reading'
  <1>1. /\ switches \in Nat /\ discovery.since \in Nat /\ \A d \in Calls : mark[d] \in Nat
        /\ Discovering /\ \A d \in Calls : Looking(d) => Fresh(d)
    BY VersionAssumption DEF Types, TypeOK, ClientTypeOK, Reading
  <1>2. CASE Switch
    <2>1. /\ switches' = switches + 1
          /\ UNCHANGED <<pc, version, attempt, got, mark, cached, asked, learned, waits, discovery>>
      BY <1>2 DEF Switch, cacheVars, readVars
    <2>2. Discovering'
      <3>1. asked \in Nat
        BY VersionAssumption DEF Types, TypeOK, ClientTypeOK
      <3>2. QED
        BY <1>1, <2>1, <3>1 DEF Discovering
    <2>3. ASSUME NEW d \in Calls, Looking(d)
          PROVE  Fresh(d)'
      <3>1. mark[d] <= switches /\ (discovery # NoDiscovery => mark[d] <= discovery.since)
        BY <1>1, <2>3 DEF Fresh
      <3>2. mark[d] <= switches + 1 /\ mark[d] # switches + 1
        BY <1>1, <3>1
      <3>3. QED
        BY <2>1, <3>1, <3>2 DEF Fresh
    <2>4. QED
      BY <2>1, <2>2, <2>3 DEF Reading, Looking
  <1>3. CASE \E m \in wire : Handle(m)
    <2>1. UNCHANGED <<speaks, switches, pc, version, attempt, got, mark, cached, asked, learned,
                      waits, discovery>>
      BY <1>3 DEF Handle, cacheVars, readVars
    <2>2. QED
      BY <1>1, <2>1 DEF Reading, Discovering, Looking, Fresh, Current
  <1>4. CASE Describe
    <2>1. /\ UNCHANGED <<speaks, switches, pc, version, attempt, got, mark, cached, asked, learned, waits>>
          /\ discovery # NoDiscovery
          /\ discovery'.since = discovery.since /\ discovery'.version = speaks
      BY <1>4 DEF Describe, t3Vars, readVars, NoDiscovery, Types, TypeOK, ClientTypeOK
    <2>2. QED
      BY <1>1, <2>1 DEF Reading, Discovering, Looking, Fresh, Current
  <1>5. QED
    BY <1>2, <1>3, <1>4 DEF T3

LEMMA SharedReading ==
  ASSUME Types, Reading, Shared
  PROVE  Reading' /\ \A d \in Calls : Recovers(d)
  <1>1. CASE Crash
    <2>1. /\ discovery' = NoDiscovery /\ cached' = 0 /\ asked' = 0 /\ switches' = switches
          /\ \A d \in Calls : pc'[d] \in {"idle", "done"}
      BY <1>1 DEF Crash, t3Vars
    <2>2. switches \in Nat
      BY VersionAssumption DEF Types, TypeOK, ClientTypeOK
    <2>3. QED
      BY <2>1, <2>2 DEF Reading, Discovering, Looking, Recovers
  <1>2. CASE Discovered \/ DiscoveryFails \/ T3
    <2>1. UNCHANGED pc
      BY <1>2 DEF Discovered, DiscoveryFails, EndDiscovery, T3, Switch, Handle, Describe
    <2>2. QED
      BY <1>2, <2>1, DiscoveryReading, T3Reading DEF Recovers
  <1>3. QED
    BY <1>1, <1>2 DEF Shared

LEMMA ReadingStep ==
  ASSUME Types, Reading, [Next]_allVars
  PROVE  Reading' /\ \A d \in Calls : Recovers(d)
  <1>1. CASE UNCHANGED allVars
    <2>1. UNCHANGED <<speaks, switches, pc, version, attempt, got, mark, cached, asked, learned,
                      waits, discovery>>
      BY <1>1 DEF allVars, clientVars, t3Vars, cacheVars, readVars
    <2>2. QED
      BY <2>1 DEF Reading, Discovering, Looking, Fresh, Current, Recovers
  <1>2. CASE Next
    BY <1>2, Steps, CallReading, SharedReading
  <1>3. QED
    BY <1>1, <1>2

\* A read that T3 does not understand is never the fault of the protocol that was
\* cached when it began; a cached one that the gateway does not speak fails reads
\* at once, and is wrong only if T3 has changed since it was asked for.
THEOREM ReadsRecoverHolds == Spec => ReadsRecover
  <1>1. Init => Types /\ Reading
    <2>1. Init => Reading
      BY DEF Init, ClientInit, Reading, Discovering, Looking
    <2>2. QED
      BY <2>1, InitTypes
  <1>2. Types /\ Reading /\ [Next]_allVars => (Types /\ Reading)'
    BY TypesStep, ReadingStep
  <1>3. Types /\ Reading /\ [Next]_allVars =>
          [\A c \in Calls :
             pc[c] # "read" /\ pc'[c] = "read" =>
               /\ got'[c] = "incompatible" =>
                    \/ switches > mark[c] \/ speaks \notin Supported
                    \/ pc[c] = "checking" /\ learned[c] = 0
               /\ got'[c] = "unsupported" =>
                    \/ speaks \notin Supported
                    \/ switches > IF pc[c] = "learning" THEN mark[c] ELSE asked]_allVars
    BY ReadingStep DEF Recovers
  <1>4. QED
    BY <1>1, <1>2, <1>3, PTL DEF Spec, ReadsRecover

====
