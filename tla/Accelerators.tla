---------------------------- MODULE Accelerators ----------------------------
(***************************************************************************)
(* The SOMMELIER_ACCELERATORS list (accelerator.rs, Context::new) and the  *)
(* keymap tables the keyboard handler derives from a wl_keyboard.keymap    *)
(* event (handler/keyboard.rs).  A key is left to the host when its symbol *)
(* at the current shift level, in lower case, and exactly the modifiers    *)
(* that are down match an entry of the list.                               *)
(***************************************************************************)
EXTENDS Integers, Sequences

CONSTANTS
  Env,          \* the list: a sequence of [tags, name] tokens
  KeysymLower,  \* xkb_keysym_to_lower over the known keysyms
  Layout,       \* per key: [syms, repeats], the symbols level by level
  NoSymbol      \* KEY_NoSymbol

ASSUME LayoutAssumption ==
  \A k, j \in DOMAIN Layout : \A l \in DOMAIN Layout[k].syms :
    /\ Layout[k].syms[l] \in DOMAIN KeysymLower \ {NoSymbol}
    /\ k # j => \A m \in DOMAIN Layout[j].syms : Layout[j].syms[m] # Layout[k].syms[l]

Modifiers == {"Control", "Alt", "Shift", "Super"}

\* The accepted tags; an unterminated tag is like an unknown one.
TagModifier ==
  [control |-> "Control", ctrl |-> "Control", alt |-> "Alt", meta |-> "Alt",
   shift |-> "Shift", super |-> "Super", win |-> "Super", search |-> "Super"]

keysym_to_lower(sym) == KeysymLower[sym]

IsEmpty(token) == token.tags = <<>> /\ token.name = ""

ParseErrors(token) ==
  {t \in DOMAIN token.tags : token.tags[t] \notin DOMAIN TagModifier}
    \cup (IF token.name \in DOMAIN KeysymLower THEN {} ELSE {0})

\* Variant: the parsed symbol is kept as it is spelt.
parse_accelerator_as_spelt(token) ==
  [modifiers |-> {TagModifier[token.tags[t]] : t \in DOMAIN token.tags},
   symbol |-> token.name]

parse_accelerator(token) ==
  [modifiers |-> {TagModifier[token.tags[t]] : t \in DOMAIN token.tags},
   symbol |-> keysym_to_lower(token.name)]

\* Empty tokens are skipped; the first error refuses the list.
ListRefused == \E i \in DOMAIN Env : ~IsEmpty(Env[i]) /\ ParseErrors(Env[i]) # {}

parse_accelerators ==
  {parse_accelerator(Env[i]) : i \in {j \in DOMAIN Env : ~IsEmpty(Env[j])}}

\* A refused list disables accelerator filtering and nothing else.
ContextAccelerators == IF ListRefused THEN {} ELSE parse_accelerators

-----------------------------------------------------------------------------
\* key_get_one_sym: the shifted symbol while Shift is down, NoSymbol for a key
\* without exactly one.
KeyOneSym(key, modifiers) ==
  LET syms == Layout[key].syms
      level == IF "Shift" \in modifiers /\ Len(syms) > 1 THEN 2 ELSE 1
  IN  IF syms = <<>> THEN NoSymbol ELSE syms[level]

is_host_accelerator(key, modifiers) ==
  LET sym == KeyOneSym(key, modifiers)
  IN  sym # NoSymbol /\
      \E a \in ContextAccelerators :
         modifiers = a.modifiers /\ keysym_to_lower(sym) = a.symbol

KeysWith(sym) ==
  {k \in DOMAIN Layout : \E l \in DOMAIN Layout[k].syms : Layout[k].syms[l] = sym}

\* The keyboard's own table, or the fallback table when it has no keymap: both
\* list every level, and no two keys of the layout share a symbol.
keysym_to_evdev_keycode(sym) == CHOOSE k \in KeysWith(sym) : TRUE

repeatable_evdev_keycodes == {k \in DOMAIN Layout : Layout[k].repeats}

-----------------------------------------------------------------------------
(* wl_keyboard.keymap                                                      *)

GoodKeymap == [format |-> "XKB_V1", size |-> 2, fd |-> "regular", fileSize |-> 2,
               maps |-> TRUE, nul |-> TRUE, utf8 |-> TRUE, compiles |-> TRUE]

\* What the host may send: a keymap in a regular file or behind a virtual
\* descriptor that reports no size, or one with any single defect.
KeymapEvents ==
  {GoodKeymap, [GoodKeymap EXCEPT !.fd = "virtual", !.fileSize = 0],
   [GoodKeymap EXCEPT !.format = "NO_KEYMAP"],
   [GoodKeymap EXCEPT !.format = "unsupported"],
   [GoodKeymap EXCEPT !.size = 0], [GoodKeymap EXCEPT !.fd = "negative"],
   [GoodKeymap EXCEPT !.fd = "unstatable"], [GoodKeymap EXCEPT !.fileSize = 1],
   [GoodKeymap EXCEPT !.maps = FALSE], [GoodKeymap EXCEPT !.nul = FALSE],
   [GoodKeymap EXCEPT !.utf8 = FALSE], [GoodKeymap EXCEPT !.compiles = FALSE]}

\* MmapView::from_fd
Mapped(e) ==
  /\ e.fd \notin {"negative", "unstatable"}
  /\ e.size > 0
  /\ e.fd = "regular" => e.fileSize >= e.size
  /\ e.maps

\* as_bytes, then the terminator, the encoding and the compiler.
Compiled(e) == e.nul /\ e.utf8 /\ e.compiles

KeymapLoads(e) ==
  e.format = "XKB_V1" /\ e.size # 0 /\ Mapped(e) /\ Compiled(e)

KeymapOutcomes == {KeymapLoads(e) : e \in KeymapEvents}
=============================================================================
