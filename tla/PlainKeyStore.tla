---------------------------- MODULE PlainKeyStore -----------------------------
(***************************************************************************)
(* What the platform key store and the key selector promise (spec 4.5,    *)
(* 4.6, 4.7 and 5), with no locks, slices or loop: the list is a          *)
(* sequence of keys that Set and Add change in one atomic step, and a      *)
(* RecoverKeys call takes its snapshot of the list at one instant between  *)
(* its start and its return.  It then fails with "no key available"        *)
(* exactly when the key the handle was sealed with was absent at that      *)
(* instant; otherwise the outcome is that of the decryption.               *)
(***************************************************************************)
EXTENDS Sequences, Functions

CONSTANTS Keys, Readers, Writers

VARIABLES
  store,     \* the list of platform keys
  pending,   \* per writer thread: the Set or Add call it is making, or none
  phase,     \* per call: "idle", "selecting" (before the snapshot), "selected"
  sought,    \* the key the handle of the call was sealed with
  found,     \* the sought key was in the snapshot
  outcome    \* what the last call returned

avars == <<store, pending, phase, sought, found, outcome>>

\* A Set or Add call and its arguments.
Calls == [kind : {"set", "add"}, args : Seq(Keys)]
NoCall == [kind |-> "none"]

\* Step 1 and 2 of 4.7 and step 1 of 4.6 may fail before any key is read.
EarlyErrors == {"errJSON", "errNonce", "errAAD", "errAlg"}
\* What steps 4-6 of 4.7 may give once a key has been selected.
Opened == {"ok", "errAEAD", "errOpen"}
NoOutcome == "none"

Init ==
  /\ store = <<>>
  /\ pending = [w \in Writers |-> NoCall]
  /\ phase = [r \in Readers |-> "idle"]
  /\ sought \in [Readers -> Keys]
  /\ found = [r \in Readers |-> FALSE]
  /\ outcome = [r \in Readers |-> NoOutcome]

\* A writer thread calls Set(keys...) or Add(keys...).
Invoke(w) ==
  /\ pending[w] = NoCall
  /\ pending'[w] \in Calls
  /\ pending' = [pending EXCEPT ![w] = pending'[w]]
  /\ UNCHANGED <<store, phase, sought, found, outcome>>

\* The call takes effect in one step and returns: Set replaces the list by
\* its arguments, Add appends them in order.
Apply(w) ==
  /\ pending[w] \in Calls
  /\ store' = IF pending[w].kind = "set" THEN pending[w].args
               ELSE store \o pending[w].args
  /\ pending' = [pending EXCEPT ![w] = NoCall]
  /\ UNCHANGED <<phase, sought, found, outcome>>

\* RecoverKeys starts, and either fails on the handle at once or goes on
\* to select a key.
Call(r, k) ==
  /\ phase[r] = "idle"
  /\ sought' = [sought EXCEPT ![r] = k]
  /\ found' = [found EXCEPT ![r] = FALSE]
  /\ \/ /\ \E e \in EarlyErrors : outcome' = [outcome EXCEPT ![r] = e]
        /\ UNCHANGED phase
     \/ /\ phase' = [phase EXCEPT ![r] = "selecting"]
        /\ UNCHANGED outcome
  /\ UNCHANGED <<store, pending>>

\* The snapshot: the call decides here whether its key is listed.
Snapshot(r) ==
  /\ phase[r] = "selecting"
  /\ phase' = [phase EXCEPT ![r] = "selected"]
  /\ found' = [found EXCEPT ![r] = sought[r] \in Range(store)]
  /\ UNCHANGED <<store, pending, sought, outcome>>

\* The call returns what the snapshot allows.
Finish(r) ==
  /\ phase[r] = "selected"
  /\ phase' = [phase EXCEPT ![r] = "idle"]
  /\ \E o \in IF found[r] THEN Opened ELSE {"errNoKey"} :
       outcome' = [outcome EXCEPT ![r] = o]
  /\ UNCHANGED <<store, pending, sought, found>>

\* RecoverKeysWithAuthKey and ChangeAuthKey (P6).
Unsupported(r) ==
  /\ phase[r] = "idle"
  /\ outcome' = [outcome EXCEPT ![r] = "errUnsupported"]
  /\ UNCHANGED <<store, pending, phase, sought, found>>

Next ==
  \/ \E w \in Writers : Invoke(w) \/ Apply(w)
  \/ \E r \in Readers :
       \/ \E k \in Keys : Call(r, k)
       \/ Snapshot(r) \/ Finish(r) \/ Unsupported(r)

Spec == Init /\ [][Next]_avars

\* Every Set or Add that has been called takes effect, and every lookup
\* that has started takes its snapshot and returns.
Fairness ==
  /\ \A w \in Writers : WF_avars(Apply(w))
  /\ \A r \in Readers : WF_avars(Snapshot(r)) /\ WF_avars(Finish(r))

FairSpec == Spec /\ Fairness

=============================================================================
