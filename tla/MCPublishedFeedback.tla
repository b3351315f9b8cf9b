------------------------ MODULE MCPublishedFeedback ------------------------
(***************************************************************************)
(* Instances of PublishedFeedback for TLC: which calls the clients make.   *)
(***************************************************************************)
EXTENDS PublishedFeedback, TLC

AllCalls == {c \in [Requests -> Call] :
               \A r \in Requests : c[r].key \notin BrowserKeys =>
                                     Cardinality(c[r].symbols) = 1}

\* Every request is about the first symbol; two may differ in the others.
AboutFirst == {c \in AllCalls : \A r \in Requests : 1 \in c[r].symbols}

(* A browser request, its retry, and another client's request for the same *)
(* symbols, received by any of the processes.                              *)
RetryAndRival ==
    {[r \in Requests |-> [key |-> IF r = 3 THEN "other" ELSE "retried",
                         symbols |-> Symbols,
                         loop |-> l[r]]] : l \in [Requests -> Loops]}

RequestsAlike == Permutations(Requests)
WorkersAlike  == Permutations(Workers)
Alike         == RequestsAlike \union WorkersAlike

=============================================================================
