-------------------------- MODULE MCInstantDispatch --------------------------
(* Instances of InstantDispatch for TLC.  Drivers, passengers and handlers   *)
(* are interchangeable; requests and offers are not (their number is their   *)
(* age).                                                                     *)
EXTENDS InstantDispatch, TLC

Interchangeable ==
  Permutations(Driver) \cup Permutations(Handler) \cup Permutations(Passenger)

\* Behaviours of Spec in which passengers only ask and drivers only decline or
\* let their offers lapse: nobody withdraws, accepts or goes offline, and no
\* request runs out of time.  What these can reach, Spec can.
DeclinesNext ==
  \E w \in Handler :
    \/ InsertRequest(w) \/ Dispatch(w) \/ LockDriver(w) \/ MakeOffer(w)
    \/ AnnounceOffer(w) \/ CloseOffer(w) \/ FreeDriver(w) \/ ReopenSearch(w)
    \/ \E p \in Passenger : LiveRequest(p) = {} /\ CreateRequest(w, p)
    \/ \E o \in Offer : TimeoutFires(w, o) \/ DeclineOffer(w, o)

DeclinesSpec == Init /\ [][DeclinesNext]_vars
=============================================================================
