------------------------- MODULE MCRequestAdmission -------------------------
(* An instance of RequestAdmission for TLC.                                 *)
EXTENDS RequestAdmission

CONSTANT MaxBegun \* how many handlers begin in a behaviour

Began ==
    {u \in Uploads : upload[u] # "start"}
      \cup {p \in PolicyUploads : pUpload[p] # "start"}
      \cup {r \in Readers : reader[r] # "start"}

\* MaxBegun of the handlers begin, whichever these are.  They are numbers, and
\* those of a kind begin in the order of these: any behaviour in which they begin
\* in another order is one of these with the names exchanged.  (Symmetry sets
\* would be unsound here: liveness is checked.)
Bounded ==
    /\ Cardinality(Began) <= MaxBegun
    /\ \A u, v \in Uploads : u < v /\ upload[v] # "start" => upload[u] # "start"
    /\ \A p, q \in PolicyUploads :
         p < q /\ pUpload[q] # "start" => pUpload[p] # "start"
=============================================================================
