---------------------------- MODULE MCDeskViewers ----------------------------
(* Instances of DeskViewers for TLC. *)
EXTENDS DeskViewers

CONSTANTS left, right, pc, console, work, work2, one, two, other, x, page

(* The second id of "Work" is the first of "Work 2". *)
IdsOfWork == [n \in {work, work2} |-> IF n = work THEN <<one, two>> ELSE <<two, other>>]

Patch(name, look) == [name |-> name, look |-> look]
SomePatches == {Patch(x, Keep), Patch(None, "icon")}
SomeWirings == {<<left, pc>>, <<left, None>>}

(* A desk that was edited before: of three presets the first was deleted, one monitor was placed. *)
Kept ==
  [Seed EXCEPT !.presets = {[id |-> two, order |-> 1, name |-> None, assigned |-> TRUE],
                            [id |-> other, order |-> 2, name |-> None, assigned |-> TRUE]},
               !.placed[left] = [x |-> 0, auto |-> FALSE],
               !.manual = {console}, !.age = 1]

(* The same in version 1: names in customNames, one of them empty. *)
Version1 == File("old", Kept, [e \in {left, pc} |-> IF e = left THEN x ELSE ""])

(* Edited by hand: a preset was copied with its id, and the grid is narrower than what is on it. *)
ByHand ==
  [Seed EXCEPT !.presets = {[id |-> two, order |-> k, name |-> None, assigned |-> TRUE] : k \in {1, 2}},
               !.placed[left] = [x |-> 1, auto |-> FALSE]]

Desks == {Version1, Current(ByHand), Unusable("invalid")}
Garbled == {Unusable("garbled")}

OneOrBoth == {<<left>>, <<right, left>>}

NobodyOrOne == {{}, {page}}
Nobody == {{}}
Budget == [pages_ \in NobodyOrOne |-> IF pages_ = {} THEN 3 ELSE 2]
=============================================================================
