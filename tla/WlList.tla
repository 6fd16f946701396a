------------------------------- MODULE WlList -------------------------------
(***************************************************************************)
(* The intrusive list of libwayland (struct wl_list), as the sequence of   *)
(* the elements that hang on its head.  Position Len(s) + 1 is the head    *)
(* itself: following `next` from the last element leads to the head, not   *)
(* to NULL, and wl_container_of() on it yields no element at all.          *)
(***************************************************************************)
EXTENDS Naturals, Sequences

\* The position of element x.
PosOf(s, x) == CHOOSE i \in DOMAIN s : s[i] = x

\* wl_list_insert(&head, &x->link)
InsertFront(s, x) ==
  [j \in 1 .. Len(s) + 1 |-> IF j = 1 THEN x ELSE s[j - 1]]

\* wl_list_remove(&s[i]->link)
RemoveAt(s, i) ==
  [j \in 1 .. Len(s) - 1 |-> IF j < i THEN s[j] ELSE s[j + 1]]

\* wl_list_remove() then wl_list_insert(&head, ...): s[i] becomes the first.
MoveToFront(s, i) ==
  [j \in 1 .. Len(s) |->
     IF j = 1 THEN s[i] ELSE IF j <= i THEN s[j - 1] ELSE s[j]]

\* wl_list_remove() then wl_list_insert(head.prev, ...): s[i] becomes the last.
MoveToBack(s, i) ==
  [j \in 1 .. Len(s) |->
     IF j < i THEN s[j] ELSE IF j < Len(s) THEN s[j + 1] ELSE s[i]]

\* The set of the elements.
Elements(s) == {s[i] : i \in DOMAIN s}

\* No element is linked twice.
NoDuplicates(s) == \A i, j \in DOMAIN s : s[i] = s[j] => i = j
=============================================================================
