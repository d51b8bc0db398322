---------------------------- MODULE MimallocTest ----------------------------
(***************************************************************************)
(* junk/mimalloc-test.cpp hooks malloc, free and rand of its own process   *)
(* by the first version of fishhook (junk/fishhook.c), which keeps its     *)
(* list in malloc's memory; the hooks print, then call what they replaced. *)
(*                                                                         *)
(* One thread.  Calls are a stack of active functions, each with the calls *)
(* it has still to make; a call by name goes through a slot of the image   *)
(* the caller is in.  Instead of main's calls in the order of its lines,   *)
(* any calls in any order, after a first line is printed; images may be    *)
(* loaded in between.                                                      *)
(*                                                                         *)
(* Outside the repository: dyld calls a registered callback for the images *)
(* there are and for those that come; printf allocates stdout's buffer     *)
(* when it is first called; malloc may fail.                               *)
(***************************************************************************)
EXTENDS Integers, Sequences, FiniteSetsExt

CONSTANTS
  Images,      \* image -> [dladdr, symtab, dysymtab, linkedit, indirect : BOOLEAN]
  Resident,    \* the images there at the start
  Slots,       \* [image, segment, type, symbol]: pointers that go through a symbol table
  Refused,     \* images whose sections vm_protect leaves alone
  Interposed,  \* what dyld binds a name to: mimalloc-test-helper.cpp has my_rand for rand
  Arguments,   \* of the calls: sequences of [name, replacement]
  MaxCalls     \* bound: successful calls of rebind_symbols and rebind_symbols_image

None == "none"
Hooks == {"exe_malloc", "exe_free", "exe_rand"}
Called == {"printf", "malloc", "free", "rand"}
Named == {x.symbol : x \in Slots}
Functions == Named \union Hooks \union Called \union {"my_rand", "exe_cb"}

(* What main asks for. *)
Rebindings == {[name |-> "rand", replacement |-> "exe_rand"],
               [name |-> "malloc", replacement |-> "exe_malloc"],
               [name |-> "free", replacement |-> "exe_free"]}

(* The hooks are static, so that no image imports them; the helper has one *)
(* DYLD_INTERPOSE, if it is there.                                         *)
ASSUME MimallocTestAssumption ==
  /\ \A m \in DOMAIN Images :
       Images[m] \in [{"dladdr", "symtab", "dysymtab", "linkedit", "indirect"} -> BOOLEAN]
  /\ Resident \subseteq DOMAIN Images /\ "exe" \in Resident
  /\ Slots \subseteq [image : DOMAIN Images, segment : {"__DATA", "__DATA_CONST", "__AUTH_CONST"},
                      type : {"lazy", "non_lazy", "regular"}, symbol : STRING \ Hooks]
  /\ DOMAIN Interposed \subseteq {"rand"} /\ \A s \in DOMAIN Interposed : Interposed[s] = "my_rand"
  /\ Arguments \subseteq Seq(Rebindings)
  /\ MaxCalls \in Nat

VARIABLES
  _rebindings_head, \* the list: newest call first, each the rebindings of a call
  blocks,           \* blocks that prepend_rebindings has allocated and nobody freed
  registered,       \* dyld knows the callback
  images,           \* those loaded
  bindings,         \* slot -> function
  replaced,         \* hook -> its orig_...: a function or None
  todo, cur, left,  \* of a call: images to do, the list used, slots of an image to do
  owned,            \* and whether the list is the call's own
  stack,            \* the active functions
  buffered,         \* stdout has its buffer
  made, want        \* history: successful calls; slot -> what they asked for last

library == <<_rebindings_head, blocks, registered, images, bindings, replaced, todo, cur, left, owned>>
client == <<stack, buffered>>
history == <<made, want>>
vars == <<library, client, history>>
-----------------------------------------------------------------------------
Bound(s) == IF s \in DOMAIN Interposed THEN Interposed[s] ELSE s
Genuine == [x \in Slots |-> Bound(x.symbol)]

Init ==
  /\ _rebindings_head = << >> /\ blocks = 0 /\ registered = FALSE
  /\ images = Resident /\ bindings = Genuine
  /\ replaced = [h \in Hooks |-> None]
  /\ todo = {} /\ cur = << >> /\ left = {} /\ owned = FALSE
  /\ stack = << >> /\ buffered = FALSE
  /\ made = 0 /\ want = Genuine

Rebinding == cur # << >>
Idle == stack = << >> /\ ~Rebinding

(* Mutant: nothing is printed before the functions are hooked. *)
BegunAtOnce == TRUE

(* main's first line. *)
Begun == buffered

(* A call's rebindings of a name, and the calls of a list that have one. *)
Matches(rs, s) == {j \in DOMAIN rs : rs[j].name = s}
Entries(list, s) == {k \in DOMAIN list : Matches(list[k], s) # {}}

(* The loops over the list and over an entry's rebindings end at the first. *)
Replacement(list, s) ==
  LET rs == list[Min(Entries(list, s))] IN rs[Min(Matches(rs, s))].replacement

(* Mutants: the entry stays when there is no memory for its rebindings, or *)
(* is freed a second time.                                                 *)
new_entry_kept == 1
new_entry_freed_again == -1

new_entry_freed == 0

(* prepend_rebindings returns -1: one of its two mallocs failed, and after *)
(* the second the entry is freed, by name.  rebind_symbols_image goes on   *)
(* with an empty list, which changes nothing.                              *)
PrependFails ==
  /\ Idle /\ Begun
  /\ \/ UNCHANGED <<blocks, stack>>
     \/ /\ stack' = <<[fn |-> "prepend_rebindings", rest |-> <<"free">>]>>
        /\ blocks' = blocks + new_entry_freed
  /\ UNCHANGED <<_rebindings_head, registered, images, bindings, replaced, todo, cur, left, owned,
                 buffered, history>>

Ask(list, ms) ==
  /\ made' = made + 1
  /\ want' = [x \in Slots |->
       IF x.image \in ms /\ Entries(list, x.symbol) # {}
       THEN Replacement(list, x.symbol) ELSE want[x]]

Prepend(list, rs) == <<rs>> \o list

(* The first call registers the callback, which dyld then calls for the    *)
(* images there are; a later one goes through them.                        *)
rebind_symbols(rs) ==
  /\ Idle /\ Begun /\ made < MaxCalls
  /\ _rebindings_head' = Prepend(_rebindings_head, rs)
  /\ blocks' = blocks + 2
  /\ registered' = TRUE
  /\ todo' = images /\ cur' = Prepend(_rebindings_head, rs) /\ owned' = FALSE
  /\ Ask(<<rs>>, images)
  /\ UNCHANGED <<images, bindings, replaced, left, client>>

(* With a list of its own, freed at the end. *)
rebind_symbols_image(m, rs) ==
  /\ Idle /\ Begun /\ made < MaxCalls /\ m \in images
  /\ blocks' = blocks + 2
  /\ todo' = {m} /\ cur' = <<rs>> /\ owned' = TRUE
  /\ Ask(<<rs>>, {m})
  /\ UNCHANGED <<_rebindings_head, registered, images, bindings, replaced, left, client>>

(* What the load commands must hold for an image's slots to be looked at,  *)
(* and the sections that are.                                              *)
Readable(m) ==
  Images[m].dladdr /\ Images[m].symtab /\ Images[m].dysymtab /\ Images[m].linkedit
    /\ Images[m].indirect

(* Mutant: only lazily bound pointers. *)
PointersLazy(m) ==
  {x \in Slots : x.image = m /\ x.segment \in {"__DATA", "__DATA_CONST"} /\ x.type = "lazy"}

Pointers(m) ==
  {x \in Slots : x.image = m /\ x.segment \in {"__DATA", "__DATA_CONST"}
                   /\ x.type \in {"lazy", "non_lazy"}}

rebind_symbols_for_image(m) ==
  /\ left = {} /\ m \in todo
  /\ todo' = todo \ {m}
  /\ left' = IF Readable(m) THEN Pointers(m) ELSE {}
  /\ UNCHANGED <<_rebindings_head, blocks, registered, images, bindings, replaced, cur, owned,
                 client, history>>

(* Mutant: saves the hook itself when the slot holds it already. *)
SavedAlways(h, x) == bindings[x]

(* *replaced, unless the slot holds the replacement. *)
Saved(h, x) == IF bindings[x] = h THEN replaced[h] ELSE bindings[x]

Points(x) == x.symbol \notin {"LOCAL", "ABS", "x"}  \* "x": names shorter than two characters

(* perform_rebinding_with_section, for one pointer of a section. *)
RebindPointer(x) ==
  LET h == Replacement(cur, x.symbol) IN
  /\ x \in left
  /\ left' = left \ {x}
  /\ IF ~Points(x) \/ Entries(cur, x.symbol) = {} THEN UNCHANGED <<replaced, bindings>>
     ELSE /\ replaced' = [replaced EXCEPT ![h] = Saved(h, x)]
          /\ bindings' = IF x.image \notin Refused THEN [bindings EXCEPT ![x] = h]
                         ELSE bindings
  /\ UNCHANGED <<_rebindings_head, blocks, registered, images, todo, cur, owned, client, history>>

Return ==
  /\ todo = {} /\ left = {} /\ cur # << >>
  /\ cur' = << >>
  /\ blocks' = IF owned THEN blocks - 2 ELSE blocks
  /\ UNCHANGED <<_rebindings_head, registered, images, bindings, replaced, todo, left, owned,
                 client, history>>

(* dlopen, and the callback _rebind_symbols_for_image. *)
Load(m) ==
  /\ Idle /\ m \notin images
  /\ images' = images \union {m}
  /\ IF registered THEN todo' = {m} /\ cur' = _rebindings_head /\ owned' = FALSE
     ELSE UNCHANGED <<todo, cur, owned>>
  /\ want' = [x \in Slots |->
       IF x.image = m /\ Entries(_rebindings_head, x.symbol) # {}
       THEN Replacement(_rebindings_head, x.symbol) ELSE want[x]]
  /\ UNCHANGED <<_rebindings_head, blocks, registered, bindings, replaced, left, client, made>>
-----------------------------------------------------------------------------
Home(f) == IF f = "printf" THEN "libc" ELSE IF f = "my_rand" THEN "helper" ELSE "exe"

(* The calls a function makes; "orig" is by way of the hook's orig_...     *)
(* my_rand's call_once finds exe_cb by dlsym the first time, which calls   *)
(* nothing that is hooked here; when it finds none, the assertion ends the *)
(* program, as main's do when there is no memory: a behaviour that stops.  *)
Body(f) ==
  CASE f \in {"exe_malloc", "exe_free"} -> <<"printf", "orig">>
    [] f = "exe_rand" -> <<"printf", "orig", "printf">>
    [] f = "my_rand" -> <<"printf", "printf", "exe_cb">>
    [] f = "exe_cb" -> <<"printf">>
    [] f = "printf" /\ ~buffered -> <<"malloc">>
    [] OTHER -> << >>

Top == stack[Len(stack)]

Targets(f, s) ==
  LET through == {x \in Slots : x.image = Home(f) /\ x.symbol = s} IN
  IF s = "orig" THEN {replaced[f]}
  ELSE IF through = {} THEN {s} ELSE {bindings[x] : x \in through}

MainCalls(s) ==
  /\ Idle /\ (Begun \/ s = "printf")
  /\ stack' = <<[fn |-> "main", rest |-> <<s>>]>>
  /\ UNCHANGED <<library, buffered, history>>

CallNext ==
  /\ stack # << >> /\ Top.rest # << >>
  /\ \E g \in Targets(Top.fn, Head(Top.rest)) :
       stack' = Append([stack EXCEPT ![Len(stack)].rest = Tail(@)],
                       [fn |-> g, rest |-> Body(g)])
  /\ UNCHANGED <<library, buffered, history>>

Leave ==
  /\ stack # << >> /\ Top.rest = << >>
  /\ stack' = SubSeq(stack, 1, Len(stack) - 1)
  /\ buffered' = (buffered \/ Top.fn = "printf")
  /\ UNCHANGED <<library, history>>

Next ==
  \/ \E rs \in Arguments : rebind_symbols(rs) \/ \E m \in images : rebind_symbols_image(m, rs)
  \/ PrependFails
  \/ \E m \in todo : rebind_symbols_for_image(m)
  \/ \E x \in left : RebindPointer(x)
  \/ Return
  \/ \E m \in DOMAIN Images : Load(m)
  \/ \E s \in Called : MainCalls(s)
  \/ CallNext \/ Leave

Spec == Init /\ [][Next]_vars
-----------------------------------------------------------------------------
TypeOK ==
  /\ _rebindings_head \in Seq(Arguments) /\ cur \in Seq(Arguments)
  /\ blocks \in Nat /\ registered \in BOOLEAN /\ owned \in BOOLEAN /\ buffered \in BOOLEAN
  /\ images \subseteq DOMAIN Images /\ todo \subseteq images /\ left \subseteq Slots
  /\ bindings \in [Slots -> Functions] /\ want \in [Slots -> Functions]
  /\ replaced \in [Hooks -> Functions \union {None}]
  /\ \A k \in DOMAIN stack : stack[k].fn \in Functions \union {"main", "prepend_rebindings"}
  /\ made \in 0 .. MaxCalls

Exposed(x) ==
  /\ \A part \in DOMAIN Images[x.image] : Images[x.image][part]
  /\ x.image \notin Refused
  /\ x.segment # "__AUTH_CONST" /\ x.type # "regular"

(* Between calls: the slots that can be found and written hold what the    *)
(* calls that returned 0 asked for last, the others what dyld bound them   *)
(* to, and the memory kept is that of the list, whatever calls failed.     *)
AllOrNothing ==
  ~Rebinding =>
    /\ \A x \in Slots : x.image \in images =>
         bindings[x] = IF Exposed(x) THEN want[x] ELSE Genuine[x]
    /\ blocks = 2 * Len(_rebindings_head)

(* A hook's call reaches the function it replaced, and no function comes   *)
(* to be called, by way of the hooks and of printf, from within itself.    *)
HooksReturn ==
  /\ \A k \in DOMAIN stack : stack[k].rest # << >> /\ Head(stack[k].rest) = "orig" =>
       replaced[stack[k].fn] \notin Hooks \union {None}
  /\ \A k, l \in DOMAIN stack : stack[k].fn = stack[l].fn => k = l
=============================================================================
