--------------------------- MODULE CredentialsProofs ---------------------------
(* That CredentialsAreTrue holds of Credentials, for any number of logins,    *)
(* inodes, ticks and losses of power.                                         *)
EXTENDS Credentials, TLAPS

Stages == {"pairing", "exchanging", "exchanged", "verified", "opened", "written", "done", "failed"}
Identities == [inode : Inodes \cup {0}, at : Nat]

Types ==
  /\ now \in Nat /\ asked \in Nat /\ losses \in Nat
  /\ pc \in [Logins -> Stages]
  /\ obtained \in [Logins -> Nat] /\ ends \in [Logins -> Nat]
  /\ temp \in [Logins -> Inodes \cup {0}]
  /\ node \in [Inodes -> [by : Logins \cup {0}, whole : BOOLEAN, at : Nat]]
  /\ file \in Inodes \cup {0}
  /\ cached \in [id : Identities, by : Logins \cup {0}]
  /\ seen \in Identities
  /\ answer \in [state : {"missing", "expired", "valid"}, by : Logins \cup {0}]

\* No login says that its token lasts longer than T3 makes it last.
ExpiryIsEarly ==
  \A l \in Logins :
    /\ obtained[l] =< now
    /\ ends[l] # 0 => pc[l] # "pairing" /\ Expires(l) =< ends[l]
    /\ pc[l] \in {"exchanged", "verified", "opened", "written", "done"} => ends[l] # 0

\* A temporary file is that of one login only, and not yet at the path.
TempsAreApart ==
  \A l \in Logins :
    /\ pc[l] \in {"opened", "written"} => temp[l] # 0 /\ node[temp[l]].by = l
    /\ pc[l] = "written" => node[temp[l]].whole
    /\ temp[l] # 0 => temp[l] # file /\ \A k \in Logins \ {l} : temp[k] # temp[l]

\* An identity that was seen is not of later than its inode was last written,
\* and of before that if the inode is a temporary file's.
SeenBefore(id) ==
  \A i \in Inodes : id.inode = i =>
    /\ id.at =< node[i].at
    /\ \A l \in Logins : temp[l] = i => id.at < node[i].at

\* What is cached, or answered as valid, comes from a login that is done.
Sources ==
  /\ file # 0 => node[file].by \in Logins
  /\ cached.id # NoIdentity => cached.by \in Logins /\ pc[cached.by] = "done"
  /\ answer.state = "valid" => answer.by \in Logins

IInv ==
  /\ Types /\ ExpiryIsEarly /\ TempsAreApart
  /\ \A i \in Inodes : node[i].at =< now
  /\ SeenBefore(cached.id) /\ SeenBefore(seen) /\ Sources
  /\ CredentialsAreTrue

-----------------------------------------------------------------------------
USE DEF Stages, Identities, Types, Identity, NoIdentity, None, Missing, Empty

(* The initial state satisfies the invariant.                                 *)
LEMMA InitHolds == Init => IInv
  BY CredentialAssumption
  DEF Init, IInv, ExpiryIsEarly, TempsAreApart, SeenBefore, Sources, CredentialsAreTrue,
      CacheIsCurrent, FileIsVerified

(* Steps of a login that write no file (Decide to Verify, and Fail) keep the  *)
(* invariant: what they change is how far the login is, and its two times.    *)
LEMMA LoginStepHolds ==
  ASSUME IInv, NEW l \in Logins,
         Decide(l) \/ Issue(l) \/ Exchange(l) \/ Verify(l) \/ Fail(l)
  PROVE  IInv'
<1> USE DEF Decide, Issue, Exchange, Verify, Fail, Step, Obtain, ObtainedAt, diskVars, storeVars
<1>1. Types'
  BY CredentialAssumption DEF IInv
<1>2. ExpiryIsEarly'
  BY CredentialAssumption DEF IInv, ExpiryIsEarly, Expires
<1>3. \A k \in Logins : /\ pc'[k] \in {"opened", "written"} => pc'[k] = pc[k]
                        /\ pc[k] = "done" => pc'[k] = "done" /\ ends'[k] = ends[k]
  BY DEF IInv, ExpiryIsEarly
<1>4. TempsAreApart'
  BY <1>3 DEF IInv, TempsAreApart
<1>5. SeenBefore(cached.id)' /\ SeenBefore(seen)' /\ \A i \in Inodes : node'[i].at =< now'
  BY DEF IInv, SeenBefore
<1>6. Sources'
  BY <1>3 DEF IInv, Sources
<1>7. CredentialsAreTrue'
  BY <1>3 DEF IInv, Sources, CredentialsAreTrue, CacheIsCurrent, FileIsVerified
<1> QED
  BY <1>1, <1>2, <1>4, <1>5, <1>6, <1>7 DEF IInv

(* Writing the temporary file makes it later than anything seen of its inode. *)
LEMMA WriteHolds ==
  ASSUME IInv, NEW l \in Logins, Open(l) \/ Write(l)
  PROVE  IInv'
<1> USE DEF Open, Write, Step, storeVars
<1>1. PICK i \in Inodes :
        /\ temp' = [temp EXCEPT ![l] = i] /\ i # file
        /\ \A k \in Logins \ {l} : temp[k] # i
        /\ \E w \in BOOLEAN : node' = [node EXCEPT ![i] = [by |-> l, whole |-> w, at |-> now]]
        /\ node'[i].whole \/ pc'[l] # "written"
        /\ node[i].at < now \/ temp[l] = i
  <2>1. CASE Open(l)
    BY <2>1 DEF Used, IInv
  <2>2. CASE Write(l)
    BY <2>2, ZenonT(60) DEF IInv, TempsAreApart
  <2> QED
    BY <2>1, <2>2
<1>2. Types'
  BY <1>1 DEF IInv
<1>3. ExpiryIsEarly'
  BY DEF IInv, ExpiryIsEarly, Expires
<1>4. TempsAreApart'
  BY <1>1, CredentialAssumption DEF IInv, TempsAreApart
<1>5. ASSUME NEW id \in Identities, SeenBefore(id)
      PROVE  SeenBefore(id)'
  BY <1>1, <1>5 DEF IInv, SeenBefore
<1>6. SeenBefore(cached.id)' /\ SeenBefore(seen)' /\ \A j \in Inodes : node'[j].at =< now'
  BY <1>1, <1>5 DEF IInv
<1>7. \A k \in Logins : pc[k] = "done" => pc'[k] = "done"
  BY DEF IInv
<1>8. Sources' /\ (file # 0 => node'[file] = node[file])
  BY <1>1, <1>7 DEF IInv, Sources
<1>9. CredentialsAreTrue'
  BY <1>7, <1>8 DEF IInv, Sources, CredentialsAreTrue, CacheIsCurrent, FileIsVerified
<1> QED
  BY <1>2, <1>3, <1>4, <1>6, <1>8, <1>9 DEF IInv

(* A renamed file was written after anything seen of its inode, so that       *)
(* nothing is cached under its identity.                                      *)
LEMMA RenameHolds ==
  ASSUME IInv, NEW l \in Logins, Rename(l)
  PROVE  IInv'
<1> USE DEF Rename, Step, storeVars
<1>1. /\ file' = temp[l] /\ temp[l] \in Inodes /\ node[temp[l]].by = l /\ node[temp[l]].whole
      /\ pc' = [pc EXCEPT ![l] = "done"] /\ temp' = [temp EXCEPT ![l] = 0]
  BY DEF IInv, TempsAreApart
<1>2. Types' /\ ExpiryIsEarly'
  BY <1>1 DEF IInv, ExpiryIsEarly, Expires
<1>3. TempsAreApart'
  BY <1>1 DEF IInv, TempsAreApart
<1>4. SeenBefore(cached.id)' /\ SeenBefore(seen)' /\ \A j \in Inodes : node'[j].at =< now'
  BY <1>1, CredentialAssumption DEF IInv, SeenBefore
<1>5. Sources' /\ \A k \in Logins : pc[k] = "done" => pc'[k] = "done"
  BY <1>1 DEF IInv, Sources
<1>6. CacheIsCurrent' /\ FileIsVerified'
  <2>1. cached.id # [inode |-> temp[l], at |-> node[temp[l]].at]
    BY <1>1 DEF IInv, SeenBefore
  <2> QED
    BY <1>1, <2>1, CredentialAssumption DEF IInv, CacheIsCurrent, FileIsVerified
<1>7. CredentialsAreTrue'
  BY <1>5, <1>6 DEF IInv, Sources, CredentialsAreTrue
<1> QED
  BY <1>2, <1>3, <1>4, <1>5, <1>7 DEF IInv

(* The file goes, the clock moves on.                                         *)
LEMMA PassiveStepHolds ==
  ASSUME IInv, Remove \/ Tick
  PROVE  IInv'
<1> USE DEF Remove, Tick, loginVars, diskVars, storeVars
<1>1. Types' /\ ExpiryIsEarly'
  BY DEF IInv, ExpiryIsEarly, Expires
<1>2. TempsAreApart' /\ Sources' /\ \A i \in Inodes : node'[i].at =< now'
  BY CredentialAssumption DEF IInv, TempsAreApart, Sources
<1>3. SeenBefore(cached.id)' /\ SeenBefore(seen)'
  BY DEF IInv, SeenBefore
<1>4. CredentialsAreTrue'
  BY DEF IInv, CredentialsAreTrue, CacheIsCurrent, FileIsVerified
<1> QED
  BY <1>1, <1>2, <1>3, <1>4 DEF IInv

(* The identity of the file at the path is seen before it is written again.   *)
LEMMA StatHolds ==
  ASSUME IInv, Stat
  PROVE  IInv'
<1> USE DEF Stat, loginVars, diskVars
<1>1. Types' /\ ExpiryIsEarly' /\ TempsAreApart'
  BY DEF IInv, ExpiryIsEarly, TempsAreApart, Expires, Answer
<1>2. SeenBefore(cached.id)' /\ SeenBefore(seen)' /\ \A i \in Inodes : node'[i].at =< now'
  BY CredentialAssumption DEF IInv, SeenBefore, TempsAreApart
<1>3. Sources'
  BY CredentialAssumption DEF IInv, Sources, Answer
<1>4. CacheIsCurrent' /\ FileIsVerified'
  BY CredentialAssumption DEF IInv, CredentialsAreTrue, CacheIsCurrent, FileIsVerified
<1>5. answer'.state = "valid" =>
        pc[answer'.by] = "done" /\ (seen' = NoIdentity => asked' < ends[answer'.by])
  <2>1. CASE file # 0 /\ cached.id = Identity(file) /\ Answer(cached.by, now)
    BY <2>1, CredentialAssumption DEF IInv, Sources, ExpiryIsEarly, Answer, Expires
  <2>2. CASE file # 0 /\ cached.id # Identity(file)
    BY <2>2, CredentialAssumption DEF IInv, CredentialsAreTrue
  <2>3. CASE answer' = Missing
    BY <2>3
  <2> QED
    BY <2>1, <2>2, <2>3
<1> QED
  BY <1>1, <1>2, <1>3, <1>4, <1>5 DEF IInv, CredentialsAreTrue

(* What is read may be of a later file than the identity it is cached under,  *)
(* never of an earlier one.                                                   *)
LEMMA LoadHolds ==
  ASSUME IInv, Load
  PROVE  IInv'
<1> USE DEF Load, loginVars, diskVars
<1>1. Types' /\ ExpiryIsEarly' /\ TempsAreApart'
  BY CredentialAssumption DEF IInv, ExpiryIsEarly, TempsAreApart, Sources, Expires, Answer
<1>2. SeenBefore(cached.id)' /\ SeenBefore(seen)' /\ \A i \in Inodes : node'[i].at =< now'
  BY CredentialAssumption DEF IInv, SeenBefore
<1>3. Sources' /\ CacheIsCurrent' /\ FileIsVerified'
  BY CredentialAssumption
  DEF IInv, Sources, CredentialsAreTrue, CacheIsCurrent, FileIsVerified, Answer
<1>4. answer'.state = "valid" => pc[answer'.by] = "done" /\ asked < ends[answer'.by]
  BY CredentialAssumption
  DEF IInv, Sources, ExpiryIsEarly, CredentialsAreTrue, FileIsVerified, Answer, Expires
<1> QED
  BY <1>1, <1>2, <1>3, <1>4 DEF IInv, CredentialsAreTrue

(* A loss of power tears files, and leaves nothing cached.                    *)
LEMMA LoseHolds ==
  ASSUME IInv, Lose
  PROVE  IInv'
<1> USE DEF Lose
<1>1. \A i \in Inodes : /\ node'[i].at = node[i].at /\ node'[i].by = node[i].by
                        /\ node'[i] \in [by : Logins \cup {0}, whole : BOOLEAN, at : Nat]
  <2>1. PICK torn : node' = [i \in Inodes |-> IF i \in torn
                                             THEN [node[i] EXCEPT !.whole = FALSE] ELSE node[i]]
    OBVIOUS
  <2>2. TAKE i \in Inodes
  <2>3. node'[i] = node[i] \/ node'[i] = [node[i] EXCEPT !.whole = FALSE]
    BY <2>1
  <2>4. node[i] \in [by : Logins \cup {0}, whole : BOOLEAN, at : Nat]
    BY DEF IInv
  <2> QED
    BY <2>3, <2>4
<1>2. \A l \in Logins : pc'[l] \in {pc[l], "failed"} /\ (pc[l] = "done" => pc'[l] = "done")
                       /\ pc'[l] \notin {"opened", "written"}
  BY DEF IInv
<1>3. Types'
  BY <1>1 DEF IInv
<1>4. ExpiryIsEarly' /\ TempsAreApart' /\ Sources'
  BY <1>1, <1>2 DEF IInv, ExpiryIsEarly, TempsAreApart, Sources, Expires
<1>5. SeenBefore(cached.id)' /\ SeenBefore(seen)' /\ \A i \in Inodes : node'[i].at =< now'
  BY <1>1, CredentialAssumption DEF IInv, SeenBefore
<1>6. CredentialsAreTrue'
  BY <1>1, <1>2, CredentialAssumption
  DEF IInv, Sources, CredentialsAreTrue, CacheIsCurrent, FileIsVerified
<1> QED
  BY <1>3, <1>4, <1>5, <1>6 DEF IInv

(* Every step keeps the invariant.                                            *)
LEMMA StepHolds == IInv /\ [Next]_vars => IInv'
<1>1. CASE UNCHANGED vars
  BY <1>1 DEF vars, loginVars, diskVars, storeVars, IInv, ExpiryIsEarly, TempsAreApart,
    SeenBefore, Sources, CredentialsAreTrue, CacheIsCurrent, FileIsVerified, Expires
<1> QED
  BY <1>1, LoginStepHolds, WriteHolds, RenameHolds, PassiveStepHolds, StatHolds, LoadHolds,
    LoseHolds DEF Next

(* However many logins overlap, fail and are killed, and whatever is removed  *)
(* or lost meanwhile: a credential that the gateway reads as valid was        *)
(* verified, is whole, is the one at the path, and T3 accepts it.             *)
THEOREM CredentialsHold == Spec => []CredentialsAreTrue
<1>1. IInv => CredentialsAreTrue
  BY DEF IInv
<1> QED
  BY <1>1, InitHolds, StepHolds, PTL DEF Spec
================================================================================
