------------------------------- MODULE PageMap ------------------------------
(***************************************************************************)
(* What the physical memory manager promises, without lists or ranges:     *)
(* every page has a type, an allocation takes the lowest (or highest) run  *)
(* of free pages that satisfies the request and fails only if there is     *)
(* none, and the memory of live allocations is touched by nobody else.     *)
(***************************************************************************)
EXTENDS Integers, FiniteSetsExt

CONSTANTS
  Pages,       \* the page numbers, 0 .. n
  PAGE_SIZE,
  Requests,    \* allocation requests, with all defaults filled in
  Free, Internal, None   \* the types with a meaning of their own

VARIABLES
  pages,       \* the type of every page
  live,        \* the live allocations: [start, size, type]
  want,        \* the request that could not be satisfied, if there is one
  stage        \* "probe", "run" or "reclaim"

vars == <<pages, live, want, stage>>

PagesOf(start, size) == {p \in Pages : start <= p * PAGE_SIZE /\ p * PAGE_SIZE < start + size}

Retype(S, type) == [p \in Pages |-> IF p \in S THEN type ELSE pages[p]]

(* The addresses at which a request could be placed. *)
Places(req) ==
  {s \in {p * PAGE_SIZE : p \in Pages} :
     /\ s % req.align = 0
     /\ s >= req.min /\ s + req.size - 1 <= req.max
     /\ \E p \in Pages : s + req.size <= (p + 1) * PAGE_SIZE
     /\ \A p \in PagesOf(s, req.size) : pages[p] = Free}

Init ==
  /\ pages = [p \in Pages |-> None]
  /\ live = {}
  /\ want = {}
  /\ stage = "probe"

(* While memory is probed pages appear, disappear and are set aside.       *)
Probe ==
  /\ stage = "probe"
  /\ \A p \in Pages : pages'[p] \in {Free, Internal, None}
  /\ UNCHANGED <<live, want, stage>>

Start ==
  /\ stage = "probe"
  /\ stage' = "run"
  /\ UNCHANGED <<pages, live, want>>

(* An allocation goes to the lowest or the highest place there is. *)
Alloc(req) ==
  LET start == IF req.high THEN Max(Places(req)) ELSE Min(Places(req)) IN
  /\ stage = "run"
  /\ Places(req) # {}
  /\ pages' = Retype(PagesOf(start, req.size), req.type)
  /\ live' = live \cup {[start |-> start, size |-> req.size, type |-> req.type]}
  /\ UNCHANGED <<want, stage>>

(* It fails only when there is no place for it. *)
Fail(req) ==
  /\ stage = "run"
  /\ Places(req) = {}
  /\ want' = {req}
  /\ UNCHANGED <<pages, live, stage>>

(* A block given back is free again, and nothing else changes. *)
Release(b) ==
  /\ stage = "run"
  /\ pages' = Retype(PagesOf(b.start, b.size), Free)
  /\ live' = live \ {b}
  /\ UNCHANGED <<want, stage>>

(* Before the kernel runs, the loader's own memory is reclaimed. *)
Finish ==
  /\ stage = "run"
  /\ stage' = "reclaim"
  /\ live' = {b \in live : b.type # Internal}
  /\ UNCHANGED <<pages, want>>

Reclaim ==
  /\ stage = "reclaim"
  /\ \A p \in Pages : pages'[p] = pages[p] \/ (pages[p] = Internal /\ pages'[p] = Free)
  /\ UNCHANGED <<live, want, stage>>

Next ==
  \/ Probe
  \/ Start
  \/ \E req \in Requests : Alloc(req) \/ Fail(req)
  \/ \E b \in live : Release(b)
  \/ Finish
  \/ Reclaim

Spec == Init /\ [][Next]_vars
=============================================================================
