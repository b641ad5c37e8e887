---------------------------- MODULE NativeCatalog ---------------------------
(***************************************************************************)
(* The catalogue of T3's tools (rust/src/t3/native_mcp.rs, snapshot,       *)
(* read_catalog, failed_snapshot): one task at a time reads it for all     *)
(* who ask, over the connection it shares with the calls; what it read is  *)
(* good for one credential, connection and revision.                       *)
(*                                                                         *)
(* External: T3 changes its tools and says so, maybe in vain.  A listing   *)
(* of several pages counts as its oldest one.                              *)
(***************************************************************************)
EXTENDS NativeCalls

CONSTANTS Readers,    \* callers of snapshot
          Refresher,  \* the task that reads
          MaxChanges  \* bound: how often T3's tools change

ASSUME CatalogAssumption == Refresher \in Clients \ Calls /\ MaxChanges \in Nat

Unseen == -1
NoCatalog == [token |-> NoToken, number |-> 0, rev |-> 0, version |-> 0, fresh |-> FALSE]

VARIABLES
  catalog,  \* the cached one: for which token, connection and revision; is it fresh?
  rev,      \* the revision being read
  seen,     \* the version T3 put in its answer
  at,       \* where a reader is
  told,     \* history: the latest version the client had been told of when it asked
  shown,    \* what it was given
  version,  \* T3's tools
  notes,    \* what T3 has to say of them, and to which connection
  noticed   \* history: the latest version the client was told of

readVars    == <<at, told, shown>>
t3Vars      == <<version, notes, noticed>>
catalogVars == <<catalog, rev, seen, readVars, t3Vars>>
allVars     == <<vars, catalogVars>>

CatalogTypeOK ==
  /\ catalog \in [token : Tokens \cup {NoToken}, number : 0..MaxConnections,
                  rev : Nat, version : 0..MaxChanges, fresh : BOOLEAN]
  /\ rev \in Nat /\ seen \in -1..MaxChanges
  /\ at \in [Readers -> {"ready", "refresh", "done"}]
  /\ told \in [Readers -> 0..MaxChanges] /\ shown \in [Readers -> -1..MaxChanges]
  /\ version \in 0..MaxChanges /\ noticed \in 0..version
  /\ notes \subseteq (Numbers \X (1..MaxChanges))

CatalogInit ==
  /\ catalog = NoCatalog /\ rev = 0 /\ seen = Unseen
  /\ at = [r \in Readers |-> "done"] /\ told = [r \in Readers |-> 0]
  /\ shown = [r \in Readers |-> Unseen]
  /\ version = 0 /\ notes = {} /\ noticed = 0

-----------------------------------------------------------------------------
(* snapshot *)

Known == /\ catalog.number = generation /\ catalog.number # 0
         /\ catalog.token = credential /\ catalog.rev = dirty

Show(r, what) ==
  /\ at' = [at EXCEPT ![r] = "done"] /\ shown' = [shown EXCEPT ![r] = what]

\* A task is there to read, or this reader starts one.
Refresh ==
  IF pc[Refresher] # "idle" THEN UNCHANGED <<pc, tok>> ELSE
    /\ pc' = [pc EXCEPT ![Refresher] = "spawned"]
    /\ tok' = [tok EXCEPT ![Refresher] = credential]

\* One turn of snapshot's loop.
Look(r) ==
  /\ \/ credential = NoToken /\ Show(r, Unseen) /\ UNCHANGED <<pc, tok>>
     \/ /\ credential # NoToken /\ Known /\ catalog.fresh
        /\ Show(r, catalog.version) /\ UNCHANGED <<pc, tok>>
     \/ /\ credential = backoff.token /\ credential # NoToken /\ ~(Known /\ catalog.fresh)
        /\ Show(r, Unseen) /\ UNCHANGED <<pc, tok>>
     \/ /\ credential \notin {NoToken, backoff.token} /\ Known /\ ~catalog.fresh
        /\ Refresh /\ Show(r, catalog.version)
     \/ /\ credential \notin {NoToken, backoff.token} /\ ~Known
        /\ Refresh
        /\ at' = [at EXCEPT ![r] = "refresh"] /\ shown' = [shown EXCEPT ![r] = Unseen]
  /\ UNCHANGED <<credVars, closed, generation, connection, connecting, conn, dirty, backoff,
                 using, why, callVars, catalog, rev, seen, t3Vars>>

Ask(r)    == at[r] = "done" /\ told' = [told EXCEPT ![r] = noticed] /\ Look(r)
Resume(r) == at[r] = "ready" /\ UNCHANGED told /\ Look(r)

-----------------------------------------------------------------------------
(* read_catalog, and what its task makes of the result *)

EndRead ==
  /\ pc' = [pc EXCEPT ![Refresher] = "idle"]
  /\ using' = [using EXCEPT ![Refresher] = 0]
  /\ tok' = [tok EXCEPT ![Refresher] = NoToken]
  /\ rev' = 0 /\ seen' = Unseen
  /\ at' = [r \in Readers |-> IF at[r] = "refresh" THEN "ready" ELSE at[r]]
  /\ UNCHANGED connecting

\* Mutant: a failure is not remembered.
ReadFailsUnrecorded(number, revision) == EndRead /\ UNCHANGED <<backoff, catalog>>

\* A failure is only of use while nothing has changed since the reading began.
ReadFails(number, revision) ==
  /\ EndRead
  /\ backoff' = IF number = generation /\ revision = dirty
                THEN [token |-> tok[Refresher], rev |-> revision] ELSE backoff
  /\ UNCHANGED catalog

Unconnected == ReadFails(generation, dirty) /\ UNCHANGED <<connection, conn>>

List(number) ==
  \/ /\ conn[number].up
     /\ pc' = [pc EXCEPT ![Refresher] = "wait"]
     /\ using' = [using EXCEPT ![Refresher] = number]
     /\ rev' = dirty /\ seen' = Unseen
     /\ UNCHANGED <<connection, connecting, conn, backoff, tok, catalog, at>>
  \/ ~conn[number].up /\ ReadFails(number, dirty) /\ UNCHANGED <<connection, conn>>

Connect ==
  \/ closed /\ Unconnected
  \/ ~closed /\ Usable(connection, tok[Refresher]) /\ List(connection)
  \/ /\ ~closed /\ ~Usable(connection, tok[Refresher])
     /\ Park(Refresher, tok[Refresher])
     /\ using' = [using EXCEPT ![Refresher] = 0]
     /\ UNCHANGED <<conn, tok, backoff, catalog, rev, seen, at>>

ReadStarts == pc[Refresher] = "spawned" /\ Connect /\ UNCHANGED why

ReadOpened ==
  /\ pc[Refresher] = "opened"
  /\ \/ why[Refresher] # "none" /\ Unconnected
     \/ /\ why[Refresher] = "none"
        /\ \/ conn[using[Refresher]].token = tok[Refresher] /\ List(using[Refresher])
           \/ conn[using[Refresher]].token # tok[Refresher] /\ Connect
  /\ why' = [why EXCEPT ![Refresher] = "none"]

\* Mutant: what was read counts for the revision of the moment it arrives.
ReadLate == dirty

\* The revision a listing counts for.
ReadAs == rev

\* T3's answer is there, and is a list of tools.
Answered(number) == seen # Unseen /\ conn[number].up

Listed ==
  LET number == using[Refresher] IN
  /\ pc[Refresher] = "wait" /\ Answered(number)
  /\ EndRead
  /\ catalog' = IF number # generation THEN catalog ELSE
                [token |-> tok[Refresher], number |-> number, rev |-> ReadAs,
                 version |-> seen, fresh |-> TRUE]
  /\ backoff' = IF number # generation THEN backoff ELSE NoBackoff
  /\ UNCHANGED <<connection, conn, why>>

\* T3 refuses, says nothing in time, or the connection closes.
ListFails(dropped) ==
  LET number == using[Refresher] IN
  /\ pc[Refresher] = "wait" /\ (dropped => conn[number].up)
  /\ connection' = IF dropped THEN Without(number) ELSE connection
  /\ conn' = IF dropped THEN [conn EXCEPT ![number].up = FALSE] ELSE conn
  /\ ReadFails(number, rev) /\ UNCHANGED why

Read ==
  /\ ReadStarts \/ ReadOpened \/ Listed \/ \E dropped \in BOOLEAN : ListFails(dropped)
  /\ UNCHANGED <<credVars, closed, generation, dirty, callVars, told, shown, t3Vars>>

-----------------------------------------------------------------------------
(* Time *)

CatalogExpires ==
  /\ catalog.fresh
  /\ catalog' = [catalog EXCEPT !.fresh = FALSE]
  /\ UNCHANGED <<vars, rev, seen, readVars, t3Vars>>

\* Ten seconds are longer than a reader takes to resume.
BackoffEnds ==
  /\ backoff # NoBackoff /\ \A r \in Readers : at[r] # "ready"
  /\ backoff' = NoBackoff
  /\ UNCHANGED <<credVars, closed, generation, connection, connecting, conn, dirty, pc,
                 userVars, callVars, catalogVars>>

-----------------------------------------------------------------------------
(* T3 *)

T3Changes ==
  /\ version < MaxChanges
  /\ version' = version + 1
  /\ notes' = notes \cup {<<n, version + 1>> : n \in {k \in Numbers : conn[k].up}}
  /\ UNCHANGED <<vars, catalog, rev, seen, readVars, noticed>>

T3Lists ==
  /\ pc[Refresher] = "wait" /\ seen = Unseen
  /\ seen' = version
  /\ UNCHANGED <<vars, catalog, rev, readVars, t3Vars>>

-----------------------------------------------------------------------------
(* open: the observer of a connection's list_changed notifications *)

Notice(n, v) ==
  /\ <<n, v>> \in notes /\ conn[n].up
  /\ notes' = notes \ {<<n, v>>}
  /\ IF closed \/ n # generation THEN UNCHANGED <<dirty, backoff, noticed>> ELSE
       /\ dirty' = dirty + 1 /\ backoff' = NoBackoff
       /\ noticed' = IF v > noticed THEN v ELSE noticed
  /\ UNCHANGED <<credVars, closed, generation, connection, connecting, conn, pc, userVars,
                 callVars, catalog, rev, seen, readVars, version>>

-----------------------------------------------------------------------------
ClientTypeOK == TypeOK /\ CatalogTypeOK

ClientInit == Init /\ CatalogInit

Reader(r) == Ask(r) \/ Resume(r)

ClientNext ==
  \/ Next /\ UNCHANGED catalogVars
  \/ \E r \in Readers : Reader(r)
  \/ Read \/ CatalogExpires \/ BackoffEnds \/ T3Changes \/ T3Lists
  \/ \E n \in Numbers, v \in 1..MaxChanges : Notice(n, v)

\* A connecting task, a reading task and a resumed reader always get on.
ClientFairness ==
  /\ WF_allVars(Opening /\ UNCHANGED <<callVars, catalogVars>>)
  /\ WF_allVars(Read)
  /\ \A r \in Readers : WF_allVars(Resume(r))

ClientSpec == ClientInit /\ [][ClientNext]_allVars /\ ClientFairness

-----------------------------------------------------------------------------
(* Properties *)

\* snapshot, open: a reader never gets tools that are older than what T3 had
\* told the client, over the connection it then used, before the reader asked;
\* whatever was being read, had failed or was kept at that time.
SnapshotsAreCurrent ==
  \A r \in Readers : shown[r] # Unseen => shown[r] >= told[r]

\* snapshot, open: a failure that keeps readers from T3 is never one of before
\* the latest notification or connection.
FailuresAreCurrent == backoff # NoBackoff => backoff.rev = dirty

\* snapshot, open: neither tools nor a failure that a reader is given are older
\* than what T3 had told the client before.
CatalogIsCurrent == SnapshotsAreCurrent /\ FailuresAreCurrent

\* snapshot: every reader is answered, though T3 changes, refuses or never answers.
ReadersEnd == \A r \in Readers : at[r] # "done" ~> at[r] = "done"
=============================================================================
