------------------------------ MODULE Credentials ------------------------------
(***************************************************************************)
(* The credential for T3's native tools: native-login gets one and puts it  *)
(* in a file (rust/src/native_login.rs, main.rs), and a gateway that runs   *)
(* beside reads it for each use (NativeCredentialStore in                   *)
(* rust/src/native_credential.rs).                                          *)
(*                                                                          *)
(* Logins are killed, fail and overlap; the file is removed; the machine    *)
(* loses power.  All credentials have one size, so a file is identified by  *)
(* its inode and the time it was written.  File systems use inodes again,   *)
(* though not within one tick of their clock.                               *)
(***************************************************************************)
EXTENDS Naturals

CONSTANTS Logins,     \* runs of native-login
          Inodes,
          Life,       \* for how long T3 makes a token valid
          MaxTime,    \* bound of the clock
          MaxLosses   \* bound: how often the machine loses power

ASSUME CredentialAssumption ==
  Life \in Nat \ {0} /\ 0 \notin Inodes \cup Logins

VARIABLES
  now,       \* the clock of the gateway's machine, and of T3
  pc,        \* how far each login has come
  obtained,  \* when it says that it obtained its token
  ends,      \* when T3 stops accepting the token; 0 is no token
  temp,      \* the inode of its temporary file; 0 is none
  node,      \* what each inode holds, and when it was written
  file,      \* the inode at the credential's path; 0 is none
  cached,    \* what the gateway has read, with the identity it saw before
  asked,     \* when the read under way began, or the last one
  seen,      \* the identity the read under way saw, if one is under way
  answer,    \* what the last read came to
  losses

loginVars == <<pc, obtained, ends>>
diskVars == <<temp, node, file>>
storeVars == <<cached, asked, seen, answer>>
vars == <<now, loginVars, diskVars, storeVars, losses>>

Empty == [by |-> 0, whole |-> FALSE, at |-> 0]
NoIdentity == [inode |-> 0, at |-> 0]
None == [id |-> NoIdentity, by |-> 0]
Missing == [state |-> "missing", by |-> 0]

Init ==
  /\ now = 1
  /\ pc = [l \in Logins |-> "pairing"] /\ obtained = [l \in Logins |-> 0]
  /\ ends = [l \in Logins |-> 0]
  /\ temp = [l \in Logins |-> 0] /\ node = [i \in Inodes |-> Empty] /\ file = 0
  /\ cached = None /\ asked = 0 /\ seen = NoIdentity /\ answer = Missing
  /\ losses = 0

Tick == now < MaxTime /\ now' = now + 1 /\ UNCHANGED <<loginVars, diskVars, storeVars, losses>>

-----------------------------------------------------------------------------
(* login_native *)

Step(l, from, to) == pc[l] = from /\ pc' = [pc EXCEPT ![l] = to]

\* When the token is obtained, as far as its expiry is concerned: before it is
\* asked for, or, in the mutant, when it arrives.
ObtainedAtArrival(l, s) == s = "exchanged"
ObtainedAt(l, s) == s = "exchanging"

Obtain(l, s) == obtained' = IF ObtainedAt(l, s) THEN [obtained EXCEPT ![l] = now] ELSE obtained

\* T3's metadata is read, a client registered, and the pairing code accepted for
\* the state that was sent.
Decide(l) ==
  /\ Step(l, "pairing", "exchanging") /\ Obtain(l, "exchanging")
  /\ UNCHANGED <<now, ends, diskVars, storeVars, losses>>

\* T3 issues the token, and its answer arrives later.
Issue(l) ==
  /\ pc[l] = "exchanging" /\ ends[l] = 0
  /\ ends' = [ends EXCEPT ![l] = now + Life]
  /\ UNCHANGED <<now, pc, obtained, diskVars, storeVars, losses>>

Exchange(l) ==
  /\ Step(l, "exchanging", "exchanged") /\ ends[l] # 0 /\ Obtain(l, "exchanged")
  /\ UNCHANGED <<now, ends, diskVars, storeVars, losses>>

\* The token can list native tools.
Verify(l) ==
  /\ Step(l, "exchanged", "verified") /\ now < ends[l]
  /\ UNCHANGED <<now, obtained, ends, diskVars, storeVars, losses>>

\* A step fails, or the login is killed; what it has written stays.
Fail(l) ==
  /\ pc[l] \notin {"done", "failed"} /\ pc' = [pc EXCEPT ![l] = "failed"]
  /\ UNCHANGED <<now, obtained, ends, diskVars, storeVars, losses>>

-----------------------------------------------------------------------------
(* NativeCredentialStore::write *)

Used(i) == i = file \/ \E l \in Logins : temp[l] = i

\* The temporary file has a name of its own.
Open(l) ==
  /\ Step(l, "verified", "opened")
  /\ \E i \in Inodes :
       /\ ~Used(i) /\ node[i].at < now
       /\ node' = [node EXCEPT ![i] = [by |-> l, whole |-> FALSE, at |-> now]]
       /\ temp' = [temp EXCEPT ![l] = i]
  /\ UNCHANGED <<now, obtained, ends, file, storeVars, losses>>

Write(l) ==
  /\ Step(l, "opened", "written")
  /\ node' = [node EXCEPT ![temp[l]] = [by |-> l, whole |-> TRUE, at |-> now]]
  /\ UNCHANGED <<now, obtained, ends, temp, file, storeVars, losses>>

Rename(l) ==
  /\ Step(l, "written", "done")
  /\ file' = temp[l] /\ temp' = [temp EXCEPT ![l] = 0]
  /\ UNCHANGED <<now, obtained, ends, node, storeVars, losses>>

Remove ==
  /\ file # 0 /\ file' = 0
  /\ UNCHANGED <<now, loginVars, temp, node, storeVars, losses>>

-----------------------------------------------------------------------------
(* NativeCredentialStore::read *)

Identity(i) == [inode |-> i, at |-> node[i].at]

Expires(l) == obtained[l] + Life

Answer(l, at) ==
  answer' = [state |-> IF Expires(l) <= at THEN "expired" ELSE "valid", by |-> l]

\* The clock, then the file's identity: a read of what is cached is over.
Stat ==
  /\ seen = NoIdentity /\ asked' = now
  /\ \/ file = 0 /\ cached' = None /\ answer' = Missing /\ UNCHANGED seen
     \/ /\ file # 0 /\ cached.id = Identity(file)
        /\ Answer(cached.by, now) /\ UNCHANGED <<cached, seen>>
     \/ /\ file # 0 /\ cached.id # Identity(file)
        /\ seen' = Identity(file) /\ UNCHANGED <<cached, answer>>
  /\ UNCHANGED <<now, loginVars, diskVars, losses>>

\* The file, which may be another by now, or gone, or not a credential.
Load ==
  /\ seen # NoIdentity /\ seen' = NoIdentity
  /\ IF file # 0 /\ node[file].whole
     THEN cached' = [id |-> seen, by |-> node[file].by] /\ Answer(node[file].by, asked)
     ELSE cached' = None /\ answer' = Missing
  /\ UNCHANGED <<now, asked, loginVars, diskVars, losses>>

\* Without power, what was written last and never synced may be torn; all who
\* ran are gone.
Lose ==
  /\ losses < MaxLosses /\ losses' = losses + 1
  /\ \E torn \in SUBSET {i \in Inodes : node[i].at = now} :
       node' = [i \in Inodes |-> IF i \in torn THEN [node[i] EXCEPT !.whole = FALSE] ELSE node[i]]
  /\ pc' = [l \in Logins |-> IF pc[l] \in {"pairing", "done"} THEN pc[l] ELSE "failed"]
  /\ cached' = None /\ seen' = NoIdentity /\ answer' = Missing
  /\ UNCHANGED <<now, obtained, ends, temp, file, asked>>

-----------------------------------------------------------------------------
Next ==
  \/ \E l \in Logins : \/ Decide(l) \/ Issue(l) \/ Exchange(l) \/ Verify(l) \/ Fail(l)
                       \/ Open(l) \/ Write(l) \/ Rename(l)
  \/ Remove \/ Stat \/ Load \/ Lose \/ Tick

Spec == Init /\ [][Next]_vars

-----------------------------------------------------------------------------
(* Properties *)

\* What is cached is what the file holds, for as long as the file has the
\* identity it was cached under, though the two were not read at once.
CacheIsCurrent ==
  file # 0 /\ cached.id = Identity(file) => node[file].whole /\ node[file].by = cached.by

\* At the path is only what a login has verified, whole unless power was lost.
FileIsVerified == file # 0 => pc[node[file].by] = "done" /\ (node[file].whole \/ losses > 0)

\* A credential that is read as valid was verified, and T3 accepts it when the
\* read begins, however long it took to answer the login; however reads,
\* logins, removals and a loss of power interleave, it is never a torn one or
\* one that a login replaced before the read.
CredentialsAreTrue ==
  /\ CacheIsCurrent /\ FileIsVerified
  /\ answer.state = "valid" =>
       /\ pc[answer.by] = "done"
       /\ seen = NoIdentity => asked < ends[answer.by]
===============================================================================
