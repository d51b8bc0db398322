------------------------------ MODULE Fishhook ------------------------------
(***************************************************************************)
(* tools/z3-bench/fishhook.c: rebind_symbols and rebind_symbols_image, one *)
(* caller of them, and a thread that loads and unloads images meanwhile.   *)
(*                                                                         *)
(* A slot is an entry of an image's symbol pointer sections.  It holds the *)
(* symbol itself, which stands for the genuine function, or a hook.  Each  *)
(* hook has one variable, its orig_..., that `replaced` points to.  The    *)
(* list of rebindings_entry is flattened: newest call first, each call's   *)
(* rebindings in order, which is the order the loops go through it.        *)
(*                                                                         *)
(* dyld is outside the repository: an image is loaded with genuine slots   *)
(* and appended to its list; a registered callback is called for each      *)
(* image in the list, while that list is locked, and later for each image  *)
(* loaded.  An image stays in memory while its slots are being rewritten.  *)
(***************************************************************************)
EXTENDS Integers, Sequences

CONSTANTS
  Images,      \* images that may be loaded
  Resident,    \* dyld's list when the program starts; they stay
  Skipped,     \* libsystem_malloc.dylib and libsystem_pthread.dylib
  ReadOnly,    \* images whose sections vm_protect refuses to make writable
  Symbols,     \* imported names
  Imports,     \* image -> the names it has slots for
  Hooks,       \* replacement functions
  Silent,      \* hooks whose rebinding has replaced = NULL
  Calls,       \* arguments of rebind_symbols: sequences of <<name, replacement>>
  ImageCalls,  \* arguments of rebind_symbols_image
  HeapSize,    \* fishhook_static_heap, in units of 24 bytes
  Concurrent   \* images may come and go during a call

None == "none"
Functions == Symbols \union Hooks
Rebindings == Symbols \X Hooks

ASSUME FishhookAssumption ==
  /\ Resident \in Seq(Images) /\ Skipped \subseteq Images /\ ReadOnly \subseteq Images
  /\ Imports \in [Images -> SUBSET Symbols]
  /\ Silent \subseteq Hooks /\ Symbols \intersect Hooks = {}
  /\ Calls \union ImageCalls \subseteq Seq(Rebindings)
  /\ HeapSize \in Nat /\ Concurrent \in BOOLEAN
  /\ None \notin Images \union Functions

Threads == {"rebinder", "loader"}

VARIABLES
  rebindings_head,  \* the global list
  entries,          \* its length in calls
  heap,             \* units taken from fishhook_static_heap
  aborted,
  registered,       \* dyld knows the callback
  images,           \* dyld's list
  slots,            \* image -> name -> function
  replaced,         \* hook -> function or None
  pc,               \* thread -> "idle", "next", "callback", "slots" or "write"
  at,               \* thread -> the image being rewritten
  using,            \* thread -> the list it is rewritten with
  left,             \* thread -> the names still to be rewritten
  name,             \* thread -> the name whose slot is written next
  i, c,             \* the caller's loop over images
  locked,           \* the loop is dyld's own
  made,             \* history: calls made
  want,             \* history: image -> name -> what the calls asked for last
  age               \* history: hook -> the number of the call that brought it

list == <<rebindings_head, entries, heap, aborted, registered>>
walk == <<at, using, left, name>>
loop == <<i, c, locked>>
history == <<made, want, age>>
vars == <<list, images, slots, replaced, pc, walk, loop, history>>
-----------------------------------------------------------------------------
(* The first rebinding of a list for a name decides. *)
Rebound(rs, s) == \E k \in DOMAIN rs : rs[k][1] = s

First(rs, s) == CHOOSE k \in DOMAIN rs :
                  rs[k][1] = s /\ \A l \in DOMAIN rs : rs[l][1] = s => k <= l

Replacement(rs, s) == IF Rebound(rs, s) THEN rs[First(rs, s)][2] ELSE s

HooksOf(rs) == {rs[k][2] : k \in DOMAIN rs}
Loaded == {images[k] : k \in DOMAIN images}
Genuine == [s \in Symbols |-> s]

Init ==
  /\ rebindings_head = << >> /\ entries = 0 /\ heap = 0
  /\ aborted = FALSE /\ registered = FALSE
  /\ images = Resident
  /\ slots = [m \in Images |-> Genuine]
  /\ replaced = [h \in Hooks |-> None]
  /\ pc = [t \in Threads |-> "idle"]
  /\ at = [t \in Threads |-> None]
  /\ using = [t \in Threads |-> << >>]
  /\ left = [t \in Threads |-> {}]
  /\ name = [t \in Threads |-> None]
  /\ i = 0 /\ c = 0 /\ locked = FALSE
  /\ made = 0 /\ want = [m \in Images |-> Genuine]
  /\ age = [h \in Hooks |-> 0]

(* prepend_rebindings takes an entry and nel rebindings of the same size   *)
(* from the heap, which never gets anything back; fishhook_malloc aborts   *)
(* when `next` is past the end.                                            *)
Needs(rs) == 1 + Len(rs)

Quiet == \A t \in Threads : pc[t] = "idle"
May(t) == pc[t] = "idle" /\ (Concurrent \/ Quiet)

(* Mutant: only the entry is looked at. *)
FitsEntry(rs) == heap + 1 <= HeapSize

Fits(rs) == heap + Needs(rs) <= HeapSize

(* What a call asks for: a later one takes precedence.  A hook comes with  *)
(* one call only, as it has one variable for what it replaced.             *)
Fresh(rs) == \A h \in HooksOf(rs) : age[h] = 0

Ask(rs, ms) ==
  /\ made' = made + 1
  /\ age' = [h \in Hooks |-> IF h \in HooksOf(rs) THEN made + 1 ELSE age[h]]
  /\ want' = [m \in Images |-> [s \in Symbols |->
                IF m \in ms /\ Rebound(rs, s) THEN Replacement(rs, s) ELSE want[m][s]]]

Abort(rs) ==
  /\ ~Fits(rs)
  /\ aborted' = TRUE
  /\ UNCHANGED <<rebindings_head, entries, heap, registered, images, slots, replaced,
                 pc, walk, loop, history>>

(* Mutant: the new entry goes to the end of the list. *)
PrependAtEnd(rs) == rebindings_head \o rs

Prepend(rs) == rs \o rebindings_head

(* rebind_symbols: only the first call registers the callback, and dyld    *)
(* goes through its list; the others go through it themselves, by index.   *)
RebindSymbols(rs) ==
  /\ May("rebinder") /\ Fresh(rs)
  /\ \/ Abort(rs)
     \/ /\ Fits(rs)
        /\ heap' = heap + Needs(rs)
        /\ rebindings_head' = Prepend(rs)
        /\ entries' = entries + 1
        /\ registered' = TRUE /\ locked' = (entries = 0)
        /\ i' = 0 /\ c' = Len(images)
        /\ pc' = [pc EXCEPT !["rebinder"] = "next"]
        /\ Ask(rs, Loaded)
        /\ UNCHANGED <<aborted, images, slots, replaced, walk>>

(* rebind_symbols_for_image: which names there are to rewrite. *)
Matching(m, rs) ==
  IF m \in Loaded \ Skipped THEN {s \in Imports[m] : Rebound(rs, s)} ELSE {}

Walk(t, m, rs) ==
  /\ at' = [at EXCEPT ![t] = m]
  /\ using' = [using EXCEPT ![t] = rs]
  /\ left' = [left EXCEPT ![t] = Matching(m, rs)]
  /\ pc' = [pc EXCEPT ![t] = "slots"]
  /\ UNCHANGED name

(* rebind_symbols_image: a list of its own. *)
RebindSymbolsImage(m, rs) ==
  /\ May("rebinder") /\ Fresh(rs) /\ m \in Loaded
  /\ \/ Abort(rs)
     \/ /\ Fits(rs)
        /\ heap' = heap + Needs(rs)
        /\ i' = 0 /\ c' = 0
        /\ Walk("rebinder", m, rs)
        /\ Ask(rs, {m})
        /\ UNCHANGED <<rebindings_head, entries, aborted, registered, locked,
                       images, slots, replaced>>

(* Mutant: an index that has no header is tried again. *)
NextImageRetries ==
  /\ pc["rebinder"] = "next" /\ i < c
  /\ i' = IF i < Len(images) THEN i + 1 ELSE i
  /\ Walk("rebinder", IF i < Len(images) THEN images[i + 1] ELSE None, rebindings_head)
  /\ UNCHANGED <<list, images, slots, replaced, c, locked, history>>

(* Mutant: the list is gone through from its end, where images are added. *)
NextImageFromEnd ==
  /\ pc["rebinder"] = "next" /\ i < c
  /\ i' = i + 1
  /\ Walk("rebinder", IF i < Len(images) THEN images[Len(images) - i] ELSE None, rebindings_head)
  /\ UNCHANGED <<list, images, slots, replaced, c, locked, history>>

(* _dyld_get_image_header(i) is NULL when the list has become shorter.     *)
NextImage ==
  /\ pc["rebinder"] = "next" /\ i < c
  /\ i' = i + 1
  /\ Walk("rebinder", IF i < Len(images) THEN images[i + 1] ELSE None, rebindings_head)
  /\ UNCHANGED <<list, images, slots, replaced, c, locked, history>>

(* The header and the slide are two looks at dyld's list.  If an image     *)
(* before them goes in between, the header comes with the slide of another *)
(* image, and unless the two are equal, which is a NextImage, the sections *)
(* are sought where they are not: the program ends.                        *)
MayGo(m) == m \in Loaded \ {Resident[k] : k \in DOMAIN Resident} /\ m # at["rebinder"]

WrongSlide ==
  /\ Concurrent /\ ~locked /\ pc["loader"] = "idle"
  /\ pc["rebinder"] = "next" /\ i < c /\ i < Len(images)
  /\ \E k \in 1 .. i : MayGo(images[k])
  /\ aborted' = TRUE
  /\ UNCHANGED <<rebindings_head, entries, heap, registered, images, slots, replaced,
                 pc, walk, loop, history>>

Return ==
  /\ pc["rebinder"] = "next" /\ i = c
  /\ pc' = [pc EXCEPT !["rebinder"] = "idle"]
  /\ locked' = FALSE
  /\ UNCHANGED <<list, images, slots, replaced, walk, i, c, history>>

Save(t, s, always) ==
  LET h == Replacement(using[t], s)
      now == slots[at[t]][s]
  IN
  /\ pc[t] = "slots" /\ s \in left[t]
  /\ pc' = [pc EXCEPT ![t] = "write"]
  /\ name' = [name EXCEPT ![t] = s]
  /\ replaced' = IF h \notin Silent /\ (now # h \/ always)
                 THEN [replaced EXCEPT ![h] = now] ELSE replaced
  /\ UNCHANGED <<list, images, slots, at, using, left, loop, history>>

(* Mutant: saves what is in the slot even if it is the hook. *)
SaveSlotAlways(t, s) == Save(t, s, TRUE)

(* perform_rebinding_with_section: *replaced = what is in the slot ...     *)
SaveSlot(t, s) == Save(t, s, FALSE)

(* ... and, if vm_protect lets it, the slot = replacement.                 *)
WriteSlot(t) ==
  LET h == Replacement(using[t], name[t]) IN
  /\ pc[t] = "write"
  /\ pc' = [pc EXCEPT ![t] = "slots"]
  /\ slots' = IF at[t] \in ReadOnly THEN slots
              ELSE [slots EXCEPT ![at[t]][name[t]] = h]
  /\ left' = [left EXCEPT ![t] = @ \ {name[t]}]
  /\ UNCHANGED <<list, images, replaced, at, using, name, loop, history>>

Leave(t) ==
  /\ pc[t] = "slots" /\ left[t] = {}
  /\ pc' = [pc EXCEPT ![t] = IF t = "rebinder" THEN "next" ELSE "idle"]
  /\ at' = [at EXCEPT ![t] = None]
  /\ UNCHANGED <<list, images, slots, replaced, using, left, name, loop, history>>

(* dlopen *)
Load(m) ==
  /\ May("loader") /\ ~locked /\ m \notin Loaded
  /\ images' = Append(images, m)
  /\ slots' = [slots EXCEPT ![m] = Genuine]
  /\ want' = [want EXCEPT ![m] = [s \in Symbols |-> Replacement(rebindings_head, s)]]
  /\ at' = [at EXCEPT !["loader"] = m]
  /\ pc' = IF registered THEN [pc EXCEPT !["loader"] = "callback"] ELSE pc
  /\ UNCHANGED <<list, replaced, using, left, name, loop, made, age>>

(* _rebind_symbols_for_image, as dyld's callback *)
Callback ==
  /\ pc["loader"] = "callback"
  /\ Walk("loader", at["loader"], rebindings_head)
  /\ UNCHANGED <<list, images, slots, replaced, loop, history>>

(* dlclose *)
Without(s, k) == SubSeq(s, 1, k - 1) \o SubSeq(s, k + 1, Len(s))

Unload(m) ==
  /\ May("loader") /\ ~locked /\ MayGo(m)
  /\ \E k \in DOMAIN images : images[k] = m /\ images' = Without(images, k)
  /\ UNCHANGED <<list, slots, replaced, pc, walk, loop, history>>

Rewrite(t) == Leave(t) \/ WriteSlot(t) \/ \E s \in Symbols : SaveSlot(t, s)
Rebinder == ~aborted /\ (NextImage \/ Return \/ Rewrite("rebinder"))
Loader == ~aborted /\ (Callback \/ Rewrite("loader"))

Begin ==
  \/ \E rs \in Calls : RebindSymbols(rs)
  \/ \E rs \in ImageCalls, m \in Images : RebindSymbolsImage(m, rs)
  \/ \E m \in Images : Load(m) \/ Unload(m)
  \/ WrongSlide

Next == Rebinder \/ Loader \/ (~aborted /\ Begin)

Spec == Init /\ [][Next]_vars

(* The two threads run. *)
FairSpec == Spec /\ WF_vars(Rebinder) /\ WF_vars(Loader)
-----------------------------------------------------------------------------
TypeOK ==
  /\ rebindings_head \in Seq(Rebindings) /\ entries \in Nat /\ heap \in 0 .. HeapSize
  /\ aborted \in BOOLEAN /\ registered \in BOOLEAN
  /\ images \in Seq(Images)
  /\ slots \in [Images -> [Symbols -> Functions]]
  /\ replaced \in [Hooks -> Functions \union {None}]
  /\ pc \in [Threads -> {"idle", "next", "callback", "slots", "write"}]
  /\ at \in [Threads -> Images \union {None}]
  /\ using \in [Threads -> Seq(Rebindings)]
  /\ left \in [Threads -> SUBSET Symbols]
  /\ name \in [Threads -> Symbols \union {None}]
  /\ c \in Nat /\ i \in 0 .. c /\ locked \in BOOLEAN
  /\ made \in Nat
  /\ want \in [Images -> [Symbols -> Functions]]
  /\ age \in [Hooks -> Nat]

(* The names of an image are bound as the last call for them asked, between *)
(* calls and loads, in whatever order images came and calls were made.     *)
AsAsked(m) == \A s \in Imports[m] : slots[m][s] = want[m][s]
LatestWins == Quiet => \A m \in Loaded \ (Skipped \union ReadOnly) : AsAsked(m)

(* The images that stay are bound as asked even if others come and go and  *)
(* shift dyld's list while the loop goes through it by index.              *)
ResidentLatest ==
  Quiet => \A k \in DOMAIN Resident :
    Resident[k] \notin Skipped \union ReadOnly => AsAsked(Resident[k])

(* A hook that is bound anywhere can call what it replaced, and by way of  *)
(* hooks that came before it ends at the genuine function: no cycle.       *)
OriginalReached ==
  /\ \A m \in Images, s \in Symbols :
       slots[m][s] \in Hooks \ Silent => replaced[slots[m][s]] # None
  /\ \A h \in Hooks : replaced[h] \in Hooks => age[replaced[h]] < age[h]

(* A call of rebind_symbols, or of dlopen, returns or ends the program,    *)
(* although the loop's count is of an earlier list.                        *)
CallReturns == \A t \in Threads : pc[t] # "idle" ~> pc[t] = "idle" \/ aborted
=============================================================================
