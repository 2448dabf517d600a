---------------------------- MODULE RepoCatalogue ----------------------------
(***************************************************************************)
(* What RepoManager promises the analysis: a catalogue of the repositories *)
(* in store, taken when a process opens it and brought up to date as a     *)
(* whole each time a download returns.  Repositories come into the store   *)
(* and are taken back while a download runs, but never one the catalogue   *)
(* has published, and a process that ends, however it ends, leaves the     *)
(* store to the next one as it is.                                         *)
(***************************************************************************)
CONSTANT Pairs   \* repositories, each a URL and a directory

VARIABLES
  open,    \* a process has the catalogue open
  known,   \* what the catalogue lists
  stored   \* what is in store

vars == <<open, known, stored>>

Init == open = FALSE /\ known = {} /\ stored = {}

Open ==
  /\ ~ open /\ open' = TRUE
  /\ known' = stored
  /\ UNCHANGED stored

(* A running download puts repositories into the store, or takes them back. *)
Transfer ==
  /\ open
  /\ stored' \in SUBSET Pairs
  /\ known \subseteq stored'
  /\ UNCHANGED <<open, known>>

(* The download returns. *)
Publish ==
  /\ open
  /\ known \subseteq stored
  /\ known' = stored
  /\ UNCHANGED <<open, stored>>

Close ==
  /\ open /\ open' = FALSE
  /\ known' = {}
  /\ UNCHANGED stored

Next == Open \/ Transfer \/ Publish \/ Close

Spec == Init /\ [][Next]_vars
==============================================================================
