----------------------------- MODULE MCFishhook -----------------------------
(* Instances of Fishhook for TLC. *)
EXTENDS Fishhook

CONSTANTS exe, system, const, plugin,  \* images
          malloc, free, calloc,        \* names
          mi_malloc, printing_malloc, mi_free, mi_calloc  \* hooks

MCResident == <<exe, system>>
MCImports == [m \in Images |-> {malloc, free, calloc}]

(* malloc is rebound twice for all images, free once; calloc for one.      *)
MCCalls == {<< <<malloc, mi_malloc>> >>, << <<malloc, printing_malloc>> >>,
            << <<free, mi_free>> >>}
MCImageCalls == {<< <<calloc, mi_calloc>> >>}

(* malloc for all, then malloc for one image, then free for all. *)
OverlapCalls == {<< <<malloc, mi_malloc>> >>, << <<free, mi_free>> >>}
OverlapImageCalls == {<< <<malloc, printing_malloc>> >>}
=============================================================================
