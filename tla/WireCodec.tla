------------------------------ MODULE WireCodec ------------------------------
(***************************************************************************)
(* The Wayland wire format (wire.rs): arguments as bytes in 32-bit words, a  *)
(* header with the message's 16-bit length, strings with a length that       *)
(* counts their NUL and padding to a word.  Bytes are numbers, 0 is NUL; the *)
(* numbers encoded here stay below 256, so a word is its value and three     *)
(* zero bytes (native order on the supported machines).                      *)
(***************************************************************************)
EXTENDS Integers, Sequences, SequencesExt

CONSTANT
  MaxMessage     \* the largest length the header holds (0xFFFF in the code)

ASSUME WireAssumption == MaxMessage \in Nat /\ MaxMessage >= 8

NUL == 0
Padded(n) == 4 * ((n + 3) \div 4)
Zeroes(n) == [i \in 1..n |-> NUL]

\* MessageBuilder.
write_u32(n) == <<n, 0, 0, 0>>
write_string(s) ==
  LET len == Len(s) + 1 IN write_u32(len) \o s \o Zeroes(1 + Padded(len) - len)

\* The null string; a real one holds no NUL.
NoString == <<NUL>>
write_nullable_string(s) == IF s = NoString THEN write_u32(0) ELSE write_string(s)

\* The total length must fit the header and be whole words.
try_build_message_ok(payload) == 8 + Len(payload) <= MaxMessage /\ Len(payload) % 4 = 0
wayland_string_fits_message(s) == 8 + 4 + Padded(Len(s) + 1) <= MaxMessage

\* WireMessage: the next argument at an offset, or Error; `next` is where the one after starts.
Error == [value |-> NoString, next |-> -1]
Failed(r) == r.next = -1
Read(value, next) == [value |-> value, next |-> next]

read_u32(payload, at) ==
  IF at + 4 > Len(payload) THEN Error ELSE Read(payload[at + 1], at + 4)

\* A C string ends at its first NUL, and the last counted byte must be one.
CString(bytes) ==
  SubSeq(bytes, 1, (CHOOSE i \in DOMAIN bytes : bytes[i] = NUL /\ \A k \in 1..(i - 1) : bytes[k] # NUL) - 1)

read_string_value(payload, at, nullable) ==
  LET len == read_u32(payload, at) IN
  CASE Failed(len) -> Error
    [] ~Failed(len) /\ len.value = 0 -> IF nullable THEN Read(NoString, len.next) ELSE Error
    [] ~Failed(len) /\ len.value # 0 /\ len.next + Padded(len.value) > Len(payload) -> Error
    [] OTHER ->
         LET bytes == SubSeq(payload, len.next + 1, len.next + len.value) IN
         IF bytes[Len(bytes)] # NUL THEN Error
         ELSE Read(CString(bytes), len.next + Padded(len.value))

\* A request whose only argument is a string: nothing may follow it.
read_string(payload) ==
  LET r == read_string_value(payload, 0, FALSE) IN IF r.next = Len(payload) THEN r ELSE Error
read_nullable_string(payload) ==
  LET r == read_string_value(payload, 0, TRUE) IN IF r.next = Len(payload) THEN r ELSE Error
=============================================================================
