----------------------------- MODULE AddressMap -----------------------------
(***************************************************************************)
(* What paging promises: address spaces as sets of translations, a page    *)
(* and what it leads to.  The kernel's space is changed a page at a time,  *)
(* as it is asked for.  Another space is made as a view of the kernel's:   *)
(* it shows, from then on and without being touched again, the kernel's    *)
(* pages of those regions that had been in use when it was made, and none  *)
(* of the others.  Paging implements it.                                   *)
(***************************************************************************)
EXTENDS Sequences, Naturals

CONSTANTS Region(_), \* the region a page lies in
          Shared,    \* the regions that other spaces see
          Nothing    \* what a page without translation leads to

VARIABLES request, \* the change last asked for: a page and what it is to lead to
          map,     \* the kernel's translations
          used,    \* regions that have ever held a translation
          view     \* the other spaces, in the order they were made

vars == <<request, map, used, view>>

Regions(m) == {Region(x.page) : x \in m}

Within(m, regions) == {x \in m : Region(x.page) \in regions}

Init == map = {} /\ used = {} /\ view = <<>>

\* One page leads elsewhere, or nowhere; every view follows in the regions it shares.
Change ==
  /\ request' # request
  /\ LET now == {x \in map : x.page # request'.page}
                  \cup (IF request'.to = Nothing THEN {} ELSE {request'})
     IN  /\ map' = now
         /\ used' = used \cup Regions(now)
         /\ view' = [u \in DOMAIN view |-> [view[u] EXCEPT !.sees = Within(now, view[u].shares)]]

Make ==
  /\ request' = request
  /\ Len(view') = Len(view) + 1
  /\ view' = Append(view, [shares |-> used \cap Shared,
                           sees |-> Within(map, used \cap Shared)])
  /\ UNCHANGED <<map, used>>

Next == Change \/ Make

Spec == Init /\ [][Next]_vars
=============================================================================
