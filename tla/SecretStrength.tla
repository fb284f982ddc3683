--------------------------- MODULE SecretStrength ----------------------------
(***************************************************************************)
(* Which operator secrets are accepted: config/token-strength.ts. A secret *)
(* is a sequence of character codes; bits are counted in hundredths.       *)
(***************************************************************************)
EXTENDS Integers, Sequences, SequencesExt, FiniteSets

CONSTANTS
  Lengths,       \* how long the secrets are
  Starts, Steps, \* where runs begin and how they go on
  Blocks         \* what is repeated, over and over

Ascii == 0 .. 127   \* beyond it, other letters have a lower case

(* A run is what sequenceLength follows; a longer block can be accepted.   *)
ASSUME SecretAssumption ==
  /\ Lengths \subseteq Nat \ {0} /\ Starts \subseteq Ascii /\ Steps \subseteq {-2, -1, 1, 2}
  /\ \A block \in Blocks : \E b \in 1 .. 13 : block \in [1 .. b -> Ascii]

VARIABLES secret, laidOut   \* the secret, and what it was made as

secretVars == <<secret, laidOut>>

MIN_SECRET_LENGTH == 32
MIN_ENTROPY_BITS  == 8000
MIN_PIECE_LENGTH  == 4
PIECE_BITS        == 1600
MAX_LANES         == 4

(* log2 of 1 .. 32, at least one bit; five bits above. *)
Log2 == <<100, 100, 158, 200, 232, 258, 280, 300, 316, 332, 345, 358, 370, 380, 390, 400,
          408, 416, 424, 432, 439, 445, 452, 458, 464, 470, 475, 480, 485, 490, 495, 500>>

(* qwertyuiop, asdfghjkl, zxcvbnm, 1234567890, and each of them backwards. *)
LetterRows == {<<113, 119, 101, 114, 116, 121, 117, 105, 111, 112>>, <<97, 115, 100, 102, 103, 104, 106, 107, 108>>,
         <<122, 120, 99, 118, 98, 110, 109>>, <<49, 50, 51, 52, 53, 54, 55, 56, 57, 48>>}
KeyboardRows == LetterRows \cup {Reverse(row) : row \in LetterRows}

Longest(lengths) == CHOOSE n \in lengths \cup {0} : \A m \in lengths : m <= n
Lower(token) == [i \in DOMAIN token |-> IF token[i] \in 65 .. 90 THEN token[i] + 32 ELSE token[i]]

(* How far a and b agree from i and j on: where the loop over them stops. *)
Agree(a, i, b, j, n) == i + n <= Len(a) /\ j + n <= Len(b) /\ a[i + n] = b[j + n]
Common(a, i, b, j) ==
  CHOOSE n \in 0 .. Len(a) : ~Agree(a, i, b, j, n) /\ \A m \in 0 .. n - 1 : Agree(a, i, b, j, m)

(* The longest stretch that repeats text starting earlier. *)
RepeatLength(token, i) == Longest({Common(token, from, token, i) : from \in 1 .. i - 1})

(* The stretch at i that goes up or down by one or two all the way. *)
GoesOn(lower, i, n) == i + n <= Len(lower) /\ lower[i + n] - lower[i + n - 1] = lower[i + 1] - lower[i]
SequenceLength(lower, i) ==
  IF i = Len(lower) \/ lower[i + 1] - lower[i] \notin {-2, -1, 1, 2} THEN 0
  ELSE CHOOSE n \in 2 .. Len(lower) : ~GoesOn(lower, i, n) /\ \A m \in 2 .. n - 1 : GoesOn(lower, i, m)

KeyboardLength(lower, i) ==
  Longest({Common(lower, i, row, j) : row \in KeyboardRows, j \in 1 .. 10})

(* A greedy parse takes the longest piece, or else one character; a piece  *)
(* never costs more than its characters would.                             *)
Piece(token, i) ==
  LET lower == Lower(token)
      n == Longest({RepeatLength(token, i), SequenceLength(lower, i), KeyboardLength(lower, i)})
  IN IF n >= MIN_PIECE_LENGTH THEN n ELSE 1

Price(piece, literal) ==
  IF piece = 1 \/ piece * literal < PIECE_BITS THEN piece * literal ELSE PIECE_BITS

StreamBits(token, literal) ==
  LET from[i \in 1 .. Len(token) + 1] ==
        IF i > Len(token) THEN 0 ELSE Price(Piece(token, i), literal) + from[i + Piece(token, i)]
  IN from[1]

(* The characters of a lane, when the token is read as so many of them. *)
Lane(token, lanes, lane) ==
  [k \in 1 .. (Len(token) - lane + lanes) \div lanes |-> token[lane + (k - 1) * lanes]]

Literal(token) == LET n == Cardinality(Range(token)) IN Log2[IF n > 32 THEN 32 ELSE n]

(* Mutant: the secret is only read as it stands. *)
ReadingAsItStands(token, lanes) == StreamBits(token, Literal(token))

(* A token read as so many lanes, a literal always priced from the         *)
(* alphabet of the whole token.                                            *)
Reading(token, lanes) ==
  SumFunctionOnSet([lane \in 1 .. lanes |-> StreamBits(Lane(token, lanes, lane), Literal(token))], 1 .. lanes)

(* weakBearerTokenReason: too short, or one reading is too cheap. *)
Weak(token) ==
  \/ Len(token) < MIN_SECRET_LENGTH
  \/ \E lanes \in 1 .. MAX_LANES : Reading(token, lanes) < MIN_ENTROPY_BITS

-----------------------------------------------------------------------------
(* The digits of one draw of randomBytes(32), in hexadecimal; the draws    *)
(* are its rotations.                                                      *)
Drawn ==
  <<51, 50, 52, 51, 102, 54, 97, 56, 56, 56, 53, 97, 51, 48, 56, 100, 51, 49,
    51, 49, 57, 56, 97, 50, 101, 48, 51, 55, 48, 55, 51, 52, 52, 97, 52, 48,
    57, 51, 56, 50, 50, 50, 57, 57, 102, 51, 49, 100, 48, 48, 56, 50, 101, 102,
    97, 57, 56, 101, 97, 52, 99, 49, 50, 51>>

SecretInit == secret = <<>> /\ laidOut = "nothing"

(* generateSecretToken: drawn, and drawn again while it looks weak. *)
GenerateSecretToken ==
  /\ laidOut = "nothing" /\ laidOut' = "drawn"
  /\ \E shift \in {0, 16, 32, 48} : secret' = [i \in 1 .. Len(Drawn) |-> Drawn[((i + shift) % Len(Drawn)) + 1]]
  /\ ~Weak(secret')

(* Lanes of runs, one character from each in turn: a1b2c3 is two of them.  *)
(* A run that crosses into upper-case letters is read as two.              *)
ChooseRuns ==
  /\ laidOut = "nothing" /\ laidOut' = "runs"
  /\ \E n \in Lengths, lanes \in 1 .. MAX_LANES :
     \E start \in [1 .. lanes -> Starts], step \in [1 .. lanes -> Steps] :
       secret' = [i \in 1 .. n |-> start[((i - 1) % lanes) + 1] + step[((i - 1) % lanes) + 1] * ((i - 1) \div lanes)]
  /\ Range(secret') \subseteq Ascii \ (65 .. 90)

(* A block over and over, or the rows of a keyboard. *)
ChooseBlock ==
  /\ laidOut = "nothing" /\ laidOut' = "blocks"
  /\ \E n \in Lengths, block \in Blocks \cup KeyboardRows :
       secret' = [i \in 1 .. n |-> block[((i - 1) % Len(block)) + 1]]

SecretNext == GenerateSecretToken \/ ChooseRuns \/ ChooseBlock

SecretSpec == SecretInit /\ [][SecretNext]_secretVars

(* Runs in up to four lanes, blocks repeated and keyboard rows are refused *)
(* at any length, and a secret the server draws itself is not              *)
(* (token-strength.ts:11-18, 200-204).                                     *)
PatternsAreRefused ==
  /\ laidOut \in {"runs", "blocks"} => Weak(secret)
  /\ laidOut = "drawn" => ~Weak(secret)
=============================================================================
