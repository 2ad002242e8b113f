------------------------------ MODULE RefCount ------------------------------
(***************************************************************************)
(* Strong and weak references to one libobs object: an output, a source, a *)
(* service or an encoder, with the control block (struct obs_weak_ref)     *)
(* that outlives it, and the list of contexts it can be looked up in by    *)
(* name.                                                                   *)
(*                                                                         *)
(* A handle is a place in the program that can keep one reference; every   *)
(* handle is worked on by a thread of its own, so all the calls below      *)
(* interleave.  As in the code both counts start at 0 for one owner and    *)
(* reach -1 with the last.                                                 *)
(***************************************************************************)
EXTENDS Integers, FiniteSets

CONSTANTS
  Handles,    \* the places that can keep a reference
  First,      \* the one the object's creator keeps
  None        \* no handle

ASSUME RefCountAssumption ==
  /\ IsFiniteSet(Handles) /\ First \in Handles /\ None \notin Handles

VARIABLES
  state,      \* [Handles -> State], what it holds or where its call is
  owners,     \* [Handles -> the local of obs_weak_ref_get_ref]
  lender,     \* [Handles -> the handle whose reference the call relies on]
  refs,       \* the strong count
  weakRefs,   \* the weak count
  own,        \* whether the object's own weak reference is still counted
  listed,     \* whether the context is in its list
  mutex,      \* the handle whose call holds the list's mutex, or None
  object,     \* alive or freed
  control     \* alive or freed

vars == <<state, owners, lender, refs, weakRefs, own, listed, mutex, object, control>>

Holding == {"strong", "weak"}
Getting == {"reading", "swapping"}
Dying   == {"unlisting", "destroying", "dropping"}
State   == {"none", "freeing"} \cup Holding \cup Getting \cup Dying

Set(h, s) == state' = [state EXCEPT ![h] = s]

(* A reference is not given back while a call still relies on it.          *)
Lent(h) == \E k \in Handles : state[k] \in Getting /\ lender[k] = h

Init ==
  /\ state = [h \in Handles |-> IF h = First THEN "strong" ELSE "none"]
  /\ owners = [h \in Handles |-> 0]
  /\ lender = [h \in Handles |-> None]
  /\ refs = 0 /\ weakRefs = 0
  /\ own = TRUE /\ listed = TRUE /\ mutex = None
  /\ object = "alive" /\ control = "alive"

-----------------------------------------------------------------------------
(* obs_output_addref and its like: from one that holds the object.         *)
AddRef(g, h) ==
  /\ state[g] = "strong" /\ state[h] = "none"
  /\ refs' = refs + 1
  /\ Set(h, "strong")
  /\ UNCHANGED <<owners, lender, weakRefs, own, listed, mutex, object, control>>

\* Mutant: the control block is let go before the object is destroyed
ReleaseControlFirst(h) ==
  /\ state[h] = "strong" /\ ~Lent(h)
  /\ refs' = refs - 1
  /\ Set(h, IF refs = 0 THEN "unlisting" ELSE "none")
  /\ control' = IF refs = 0 /\ weakRefs = 0 THEN "freed" ELSE control
  /\ UNCHANGED <<owners, lender, weakRefs, own, listed, mutex, object>>

(* obs_output_release: the last one has the object to destroy.             *)
Release(h) ==
  /\ state[h] = "strong" /\ ~Lent(h)
  /\ refs' = refs - 1
  /\ Set(h, IF refs = 0 THEN "unlisting" ELSE "none")
  /\ UNCHANGED <<owners, lender, weakRefs, own, listed, mutex, object, control>>

(* obs_output_destroy takes the context from its list,                     *)
Unlist(h) ==
  /\ state[h] = "unlisting" /\ mutex = None
  /\ listed' = FALSE
  /\ Set(h, "destroying")
  /\ UNCHANGED <<owners, lender, refs, weakRefs, own, mutex, object, control>>

(* frees the object,                                                       *)
Destroy(h) ==
  /\ state[h] = "destroying"
  /\ object' = "freed"
  /\ Set(h, "dropping")
  /\ UNCHANGED <<owners, lender, refs, weakRefs, own, listed, mutex, control>>

(* and release gives the object's weak reference back.                     *)
DropOwn(h) ==
  /\ state[h] = "dropping"
  /\ own' = FALSE
  /\ weakRefs' = weakRefs - 1
  /\ Set(h, IF weakRefs = 0 THEN "freeing" ELSE "none")
  /\ UNCHANGED <<owners, lender, refs, listed, mutex, object, control>>

(* obs_output_get_weak_output from a strong reference, or                  *)
(* obs_weak_output_addref.                                                 *)
AddWeak(g, h) ==
  /\ state[g] \in Holding /\ state[h] = "none"
  /\ weakRefs' = weakRefs + 1
  /\ Set(h, "weak")
  /\ UNCHANGED <<owners, lender, refs, own, listed, mutex, object, control>>

\* Mutant: only the object's own release frees the control block
ReleaseWeakOnly(h) ==
  /\ state[h] = "weak" /\ ~Lent(h)
  /\ weakRefs' = weakRefs - 1
  /\ Set(h, "none")
  /\ UNCHANGED <<owners, lender, refs, own, listed, mutex, object, control>>

ReleaseWeak(h) ==
  /\ state[h] = "weak" /\ ~Lent(h)
  /\ weakRefs' = weakRefs - 1
  /\ Set(h, IF weakRefs = 0 THEN "freeing" ELSE "none")
  /\ UNCHANGED <<owners, lender, refs, own, listed, mutex, object, control>>

Free(h) ==
  /\ state[h] = "freeing"
  /\ control' = "freed"
  /\ Set(h, "none")
  /\ UNCHANGED <<owners, lender, refs, weakRefs, own, listed, mutex, object>>

-----------------------------------------------------------------------------
(* obs_weak_ref_get_ref, on the word of a reference g                      *)
(* (obs_output_get_ref, obs_weak_output_get_output),                       *)
GetRef(g, h) ==
  /\ state[g] \in Holding /\ state[h] = "none"
  /\ lender' = [lender EXCEPT ![h] = g]
  /\ Set(h, "reading")
  /\ UNCHANGED <<owners, refs, weakRefs, own, listed, mutex, object, control>>

(* or of the list, whose mutex get_context_by_name keeps meanwhile.        *)
LookUp(h) ==
  /\ state[h] = "none" /\ mutex = None /\ listed
  /\ mutex' = h
  /\ Set(h, "reading")
  /\ UNCHANGED <<owners, lender, refs, weakRefs, own, listed, object, control>>

Leave(h) ==
  /\ owners' = [owners EXCEPT ![h] = 0]
  /\ lender' = [lender EXCEPT ![h] = None]
  /\ mutex' = IF mutex = h THEN None ELSE mutex

Read(h) ==
  /\ state[h] = "reading" /\ refs > -1
  /\ owners' = [owners EXCEPT ![h] = refs]
  /\ Set(h, "swapping")
  /\ UNCHANGED <<lender, refs, weakRefs, own, listed, mutex, object, control>>

ReadNoOwner(h) ==
  /\ state[h] = "reading" /\ refs = -1
  /\ Set(h, "none") /\ Leave(h)
  /\ UNCHANGED <<refs, weakRefs, own, listed, object, control>>

Swap(h) ==
  /\ state[h] = "swapping" /\ refs = owners[h]
  /\ refs' = refs + 1
  /\ Set(h, "strong") /\ Leave(h)
  /\ UNCHANGED <<weakRefs, own, listed, object, control>>

SwapFails(h) ==
  /\ state[h] = "swapping" /\ refs # owners[h]
  /\ Set(h, "reading")
  /\ UNCHANGED <<owners, lender, refs, weakRefs, own, listed, mutex, object, control>>

-----------------------------------------------------------------------------

Next ==
  \E h \in Handles :
    \/ Release(h) \/ Unlist(h) \/ Destroy(h) \/ DropOwn(h)
    \/ ReleaseWeak(h) \/ Free(h)
    \/ LookUp(h) \/ Read(h) \/ ReadNoOwner(h) \/ Swap(h) \/ SwapFails(h)
    \/ \E g \in Handles : AddRef(g, h) \/ AddWeak(g, h) \/ GetRef(g, h)

Spec == Init /\ [][Next]_vars

TypeOK ==
  /\ state \in [Handles -> State]
  /\ owners \in [Handles -> Int]
  /\ lender \in [Handles -> Handles \cup {None}]
  /\ refs \in Int /\ weakRefs \in Int
  /\ own \in BOOLEAN /\ listed \in BOOLEAN
  /\ mutex \in Handles \cup {None}
  /\ object \in {"alive", "freed"} /\ control \in {"alive", "freed"}

(* Who holds a strong reference holds a living object, and every call that *)
(* reads or writes a count finds the control block: also a lookup by name  *)
(* that meets an object whose last reference has just gone (the comment in *)
(* obs_output_release on the order of its calls).                          *)
NoUseAfterFree ==
  \A h \in Handles :
    /\ state[h] = "strong" => object = "alive"
    /\ state[h] \in Holding \cup Getting \cup Dying \cup {"freeing"}
         => control = "alive"

(* When nobody holds anything and no call is under way, nothing is left.   *)
NoLeak ==
  (\A h \in Handles : state[h] = "none") => object = "freed" /\ control = "freed"
=============================================================================
