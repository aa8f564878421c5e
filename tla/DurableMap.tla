------------------------------ MODULE DurableMap ------------------------------
(***************************************************************************)
(* What a store of drafts promises, whatever it buffers: a map that readers *)
(* see at once (now) and a copy that survives a crash (safe).  The copy is  *)
(* replaced as a whole, so no crash leaves half of a batch behind, and what *)
(* readers see goes back to the copy or nowhere.                            *)
(***************************************************************************)
CONSTANTS Keys,     \* the names of the documents
          Docs,     \* the documents
          NoDoc     \* the mark of a key without one

VARIABLES now, safe

vars == <<now, safe>>

Init == /\ safe \in [Keys -> Docs \cup {NoDoc}]
        /\ now = safe

(* A write is buffered, or goes through when nothing else is buffered. *)
Write(k, d) == /\ now' = [now EXCEPT ![k] = d]
               /\ safe' = safe \/ (safe = now /\ safe' = now')

Save == safe' = now /\ UNCHANGED now

GoBack == now' = safe /\ UNCHANGED safe

Next == \/ \E k \in Keys, d \in Docs \cup {NoDoc} : Write(k, d)
        \/ Save
        \/ GoBack

Spec == Init /\ [][Next]_vars

=============================================================================
