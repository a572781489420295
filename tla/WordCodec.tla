------------------------------ MODULE WordCodec ------------------------------
(***************************************************************************)
(* A word on the air and back: two Golay halves, interleaved bit by bit,   *)
(* sent three times in 49 symbols; then the 2/3 majority, the two Golay    *)
(* decoders and their mode.  Bit strings are the sets of their ones, so    *)
(* that exclusive or is the symmetric difference.                          *)
(*                                                                         *)
(* On its way a word meets one fade, which inverts every bit of some       *)
(* consecutive symbols, and noise, which hits single bits twice, so that   *)
(* the majority is wrong as well.                                          *)
(***************************************************************************)
EXTENDS Naturals, FiniteSets, FiniteSetsExt

CONSTANTS
  Payloads,  \* the words sent: [upper, lower], subsets of 0..11
  MaxFade,   \* symbols of the longest fade
  MaxHits    \* bits of the first half that noise may invert

ASSUME CodecAssumption == MaxFade \in 1..49 /\ MaxHits \in Nat

VARIABLES
  payload,  \* the word sent
  fade,     \* symbols lost to the fade: [first, len]
  hits      \* bits of the first half's codeword that noise has inverted

codecvars == <<payload, fade, hits>>

Xor(a, b) == (a \ b) \union (b \ a)

\* 12 bits shifted to the upper half of a codeword, and back.
Up(info)   == {i + 12 : i \in info}
Info(code) == {i - 12 : i \in {j \in code : j >= 12}}
Checks(code) == {i \in code : i < 12}

-----------------------------------------------------------------------------
(* The code *)

\* The rows of GOLAY_ENCODE_TABLE for a single one; the table is linear.
Basis == <<{0, 1, 2, 6, 7, 8, 10}, {0, 2, 3, 7, 8, 9, 11}, {1, 2, 3, 4, 6, 7, 9},
           {2, 3, 4, 5, 7, 8, 10}, {3, 4, 5, 6, 8, 9, 11}, {0, 1, 2, 4, 5, 8, 9},
           {0, 2, 3, 5, 6, 9, 10}, {0, 3, 4, 6, 7, 10, 11}, {1, 2, 4, 5, 6, 10, 11},
           {0, 1, 3, 5, 8, 10, 11}, {1, 4, 7, 8, 9, 10, 11}, {0, 1, 5, 6, 7, 9, 11}>>
Parity(info) == FoldSet(LAMBDA i, p : Xor(Basis[i + 1], p), {}, info)

Encode(info) == Up(info) \union Parity(info)
Syndrome(code) == Xor(Checks(code), Parity(Info(code)))

\* init_syndrome_table: the error of up to three bits with this syndrome, if
\* there is one (the code has distance eight, so never two).
\* Its information bits are tried; its check bits follow from them.
LightParity == [i \in UNION {kSubset(k, 0..11) : k \in 0..3} |-> Parity(i)]
Table(s) ==
  {Up(i) \union Xor(s, LightParity[i]) :
     i \in {j \in DOMAIN LightParity : Cardinality(j) + Cardinality(Xor(s, LightParity[j])) <= 3}}

\* A variant for mutation: whatever can be corrected is.
InModeAlways(e, mode) == TRUE

\* A mode corrects as many errors as its number says, and detects the others.
InMode(e, mode) == Cardinality(e) <= mode

\* Golay::decode, in every mode.
Modes == 0..3
Decode(code) ==
  LET s == Syndrome(code)
      leaders == Table(s)
      Kept(mode) == {e \in leaders : InMode(e, mode)}
  IN  [mode \in Modes |->
        IF s = {} THEN [ok |-> TRUE, info |-> Info(code)]
        ELSE IF Kept(mode) = {} THEN [ok |-> FALSE, info |-> Info(code)]
        ELSE [ok |-> TRUE, info |-> Info(Xor(code, CHOOSE e \in Kept(mode) : TRUE))]]

\* flip_coder_b_check_bits
Flip(code) == Xor(code, 0..11)

-----------------------------------------------------------------------------
(* The wire *)

\* interleave, deinterleave: bits of the halves in turn, the first first.
Interleaved(a, b) == {2 * (23 - j) : j \in a} \union {2 * (23 - j) + 1 : j \in b}
HalfA(word) == {23 - i \div 2 : i \in {j \in word : j % 2 = 0 /\ j < 48}}
HalfB(word) == {23 - i \div 2 : i \in {j \in word : j % 2 = 1}}

\* A variant for mutation: the copies of a bit are sent one after the other.
CopiesAdjacent(bit) == {3 * bit, 3 * bit + 1, 3 * bit + 2}

\* encode_tx49: bit p of the stream is bit p % 49 of the word, three of them
\* make a symbol.
Copies(bit) == {bit, bit + 49, bit + 98}
SymbolOf(p) == p \div 3

Wire == Interleaved(Encode(payload.upper), Flip(Encode(payload.lower)))

Faded(p) == SymbolOf(p) \in fade.first..(fade.first + fade.len - 1)
\* The two copies that noise inverts.
Hit(bit) == {bit, bit + 49}
Noisy == UNION {Hit(2 * (23 - j)) : j \in hits}

\* The majority of the three copies of a bit, each inverted or not.
Majority ==
  LET wire == Wire  noisy == Noisy
      Arrived(bit, p) == (bit \in wire) # (Faded(p) # (p \in noisy))
  IN  {bit \in 0..47 : Cardinality({p \in Copies(bit) : Arrived(bit, p)}) >= 2}

\* ALEDecoder::decode, up to the character sets.
DecodedWord ==
  LET word == Majority
      a == Decode(HalfA(word))
      b == Decode(Flip(HalfB(word)))
  IN  [mode \in Modes |->
        [ok |-> a[mode].ok /\ b[mode].ok, upper |-> a[mode].info, lower |-> b[mode].info]]

-----------------------------------------------------------------------------
CodecInit == payload \in Payloads /\ fade = [first |-> 0, len |-> 0] /\ hits = {}

\* External: the channel.
FadeBegins ==
  /\ fade.len = 0 /\ hits = {} /\ \E k \in 0..48 : fade' = [first |-> k, len |-> 1]
  /\ UNCHANGED <<payload, hits>>
FadeGoesOn ==
  /\ fade.len \in 1..(MaxFade - 1) /\ fade.first + fade.len < 49
  /\ fade' = [fade EXCEPT !.len = @ + 1]
  /\ UNCHANGED <<payload, hits>>
Noise ==
  /\ fade.len = 0 /\ Cardinality(hits) < MaxHits
  /\ \E j \in (0..23) \ hits : hits' = hits \union {j}
  /\ UNCHANGED <<payload, fade>>
CodecNext == FadeBegins \/ FadeGoesOn \/ Noise
CodecSpec == CodecInit /\ [][CodecNext]_codecvars

-----------------------------------------------------------------------------
(* Properties *)

Intact(w) == w = [ok |-> TRUE, upper |-> payload.upper, lower |-> payload.lower]

\* A fade of up to 18 of the 49 symbols, wherever it falls, does no harm: the
\* copies of a bit are 16 symbols apart, and what is hit twice is shared out
\* between the two decoders (ALEDecoder::decode, WordInterleaver).
FadeSurvived == hits = {} /\ fade.len \in 1..18 => Intact(DecodedWord[3])

\* The trade of a mode, n/m with n + m = 7 (golay.h): up to n wrong bits in a
\* half are corrected, and up to m never pass for another word.
ModePower ==
  hits # {} =>
    LET words == DecodedWord IN
    \A n \in Modes :
      /\ Cardinality(hits) <= n => Intact(words[n])
      /\ Cardinality(hits) \in (n + 1)..(7 - n) => ~words[n].ok

\* What the interleaver and the two decoders promise together: a word survives
\* a fade and the scattered errors its mode corrects, and is reported as lost,
\* never as another word, beyond that.
WordSurvives == FadeSurvived /\ ModePower
=============================================================================
