------------------------------- MODULE Evidence -------------------------------
(***************************************************************************)
(* What the journal keeps of a failed turn, and how it orders observations  *)
(* of it (rust/src/operations/journal.rs): one row for a thread and turn, a *)
(* failure or the tombstone of a recovery, with the order of the evidence   *)
(* it rests on; and the receipt of the run, which keeps a copy.             *)
(*                                                                          *)
(* An observation's order has the protocol and scope of the read, T3's      *)
(* snapshot sequence, when the read started, since when its protocol has    *)
(* been spoken (its era, 0 if unknown), and the reason's identity, a hash   *)
(* of the message.  Items and timestamps, which refine the sequence, and    *)
(* all metadata but whether the category is known, are left out.            *)
(***************************************************************************)
EXTENDS Naturals, Sequences, SequencesExt

CONSTANTS Messages,  \* what T3 says of a failure; its identity
          Bare       \* it said nothing: the generic message

None == "none"

Identities == Messages \cup {Bare, None}

\* By their precedence, weakest first.
Sources == <<"turn", "session", "activity", "message", "item">>

Failures == [source : Range(Sources), known : BOOLEAN, message : Messages \cup {Bare}]

Orders == [version : {1, 2}, scope : {"full", "shell"}, seq : Nat,
           started : Nat, era : Nat, id : Identities]

Rows == [state : {"failed"}, failure : Failures, order : Orders]
          \cup [state : {"recovered"}, order : Orders]
          \cup {[state |-> None]}

NoRow == [state |-> None]

\* What a receipt says: a failure, or none.
NoFailure == [source |-> None]

-----------------------------------------------------------------------------
(* Orders *)

LT == 0   EQ == 1   GT == 2

Sign(a, b) == IF a < b THEN LT ELSE IF a = b THEN EQ ELSE GT

\* order_with_era: the boundary of the retained evidence is taken over, or a
\* new one is drawn where the protocol changes.
WithEra(o, row) ==
  IF row = NoRow \/ o.started < row.order.era THEN o
  ELSE IF o.version = row.order.version THEN
    IF row.order.era = 0 THEN o ELSE [o EXCEPT !.era = row.order.era]
  ELSE IF o.started > row.order.started THEN [o EXCEPT !.era = o.started] ELSE o

SameEra(a, b) == a.version = b.version /\ a.era = b.era

\* Mutant: the read that started later is the newer.
CompareOrdersByStart(a, b) == Sign(a.started, b.started)

\* compare_order: a read from before the other's era is older; across
\* protocols the reads' starts decide, within one T3's sequence, then scope.
CompareOrders(a, b) ==
  IF a.started < b.era THEN LT
  ELSE IF b.started < a.era THEN GT
  ELSE IF a.version # b.version THEN Sign(a.started, b.started)
  ELSE IF a.seq # b.seq THEN Sign(a.seq, b.seq)
  ELSE IF a.scope = b.scope THEN EQ ELSE IF b.scope = "full" THEN LT ELSE GT

\* What the file says of an order: when the read started is not compared.
Persisted(o) == [o EXCEPT !.started = 0]

-----------------------------------------------------------------------------
(* Merging two reasons *)

Priority(f) == CHOOSE i \in DOMAIN Sources : Sources[i] = f.source

\* terminal_prefers_existing
PrefersExisting(old, new) ==
  /\ new.source # "item"
  /\ ~(old.source # "item" /\ ~old.known /\ new.known)
  /\ (~new.known /\ old.known) \/ Priority(new) <= Priority(old)

\* merge_terminal_failure
Merged(old, new, sameReason) ==
  LET preferred == IF PrefersExisting(old, new) THEN old ELSE new
      other     == IF PrefersExisting(old, new) THEN new ELSE old IN
  IF new.source = "item" THEN new
  ELSE IF sameReason /\ old.message = new.message /\ ~preferred.known
          /\ old.source = new.source
  THEN [preferred EXCEPT !.known = other.known]
  ELSE preferred

-----------------------------------------------------------------------------
(* retain_terminal_failures: failure f is observed, in order given *)

\* Mutant: what recovered is never failed again.
RefusedForever(row, given) == row.state = "recovered"

\* A row that recovered stays unless the failure is newer.
Refused(row, given) ==
  row.state = "recovered" /\ CompareOrders(WithEra(given, row), row.order) # GT

Retained(row, receipt, f, given) ==
  LET o    == WithEra(given, row)
      kept == row # NoRow
      cmp  == CompareOrders(o, row.order)
      old  == IF row.state = "failed" THEN row.failure ELSE receipt
      has  == old # NoFailure
      stale == kept /\ cmp = LT
      newer == kept /\ cmp = GT
      sameReason == o.id # None /\ kept /\ o.id = row.order.id
      v2    == o.version = 2
      shell == o.scope = "shell"
      newProtocol == newer /\ o.version # row.order.version
      laterV1 == /\ newer /\ has /\ old.source = f.source
                 /\ \/ f.source \in {"activity", "message"}
                    \/ f.source = "session" /\ (~shell \/ ~sameReason)
      matching == /\ shell /\ has /\ sameReason /\ old.message = f.message
                  /\ v2 \/ (f.source = "session" /\ old.source = "session")
      unbound == v2 /\ shell /\ f.source = "turn" /\ has
      replaces == v2 \/ laterV1 \/ newProtocol
      failure ==
        IF has /\ (stale \/ unbound \/ matching) THEN old
        ELSE IF replaces \/ ~has THEN f
        ELSE Merged(old, f, sameReason)
      keepsOld == \/ has /\ (stale \/ unbound)
                  \/ /\ ~matching /\ ~replaces /\ has /\ PrefersExisting(old, f)
                     /\ ~(sameReason /\ old.message = f.message)
      candidate == IF keepsOld THEN [o EXCEPT !.id = IF kept THEN row.order.id ELSE None]
                   ELSE o
      next == IF \/ ~kept
                 \/ ~stale /\ (unbound \/ matching \/ failure = f)
              THEN candidate ELSE row.order
      started == IF ~kept \/ ~SameEra(next, row.order) THEN next.started
                 ELSE LET s == IF next.started > row.order.started
                               THEN next.started ELSE row.order.started IN
                      IF matching /\ SameEra(o, next) /\ o.started > s THEN o.started ELSE s
  IN [state |-> "failed", failure |-> failure, order |-> [next EXCEPT !.started = started]]

\* Mutant: a recovery clears whatever is retained.
ClearedAnyway(row, given) == [state |-> "recovered", order |-> WithEra(given, row)]

\* clear_terminal_failures: a recovery is observed, in order given.
Cleared(row, given) ==
  LET o == WithEra(given, row) IN
  IF row # NoRow /\ CompareOrders(o, row.order) = LT THEN row
  ELSE [state |-> "recovered",
        order |-> IF /\ row # NoRow /\ SameEra(o, row.order)
                     /\ row.order.started > o.started
                  THEN [o EXCEPT !.started = row.order.started] ELSE o]

\* Do the rows differ in the file?
Differ(a, b) ==
  \/ a.state # b.state
  \/ a.state = "failed" /\ a.failure # b.failure
  \/ a # NoRow /\ b # NoRow /\ Persisted(a.order) # Persisted(b.order)
=============================================================================
