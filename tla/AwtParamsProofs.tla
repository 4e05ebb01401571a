-------------------------- MODULE AwtParamsProofs ---------------------------
(* Proofs about AwtParams, for any arguments and any width of int. *)
EXTENDS AwtParams, TLAPS

\* What awt_open_internal and awt_open make of payload_length and preset.
LEMMA PayloadClamped ==
  \A n \in Int : /\ Clamp(n, 1, 4) \in 1 .. 4
                 /\ n \in 1 .. 4 => Clamp(n, 1, 4) = n
BY DEF Clamp

\* What FFMAX and FFMIN in awt_open leave of a preset lies between 1 and 10.
LEMMA PresetClamped == \A p \in Int : Clamp(p, 1, 10) \in 1 .. 10
BY DEF Clamp

\* An int that does not overflow keeps its value.
LEMMA WrapInRange ==
  ASSUME NEW n \in Nat, n <= IntMax
  PROVE  Wrap(n) = n
<1> DEFINE m == IntMax + 1
<1>1. m \in Nat \ {0} /\ n + m \in 0 .. (2 * m - 1)
  BY ParamConstants DEF ParamConstants
<1>2. (n + m) % (2 * m) = n + m
  BY <1>1
<1> QED
  BY <1>1, <1>2, ParamConstants DEF Wrap, ParamConstants

\* Between two attempts of awt_setup.
ParamInv ==
    /\ phase \in {"opened", "ready"}
    /\ payload_length = Clamp(asked.payload, 1, 4)
    /\ asked.payload \in Int /\ asked.second \in Int
    /\ limit = LimitOf(asked.second)
    /\ preset \in {-1} \cup 0 .. 10
    /\ asked.preset = -1 =>
         preset = IF phase = "opened" THEN -1 ELSE AutoPreset(payload_length)
    /\ phase = "ready" => preset # -1 /\ params = preset
    /\ preset = 0 => params = 0

\* The payload lengths awt_open lets through have a preset.
LEMMA AutoPresetKnown ==
  ASSUME NEW length \in 1 .. 4
  PROVE  /\ AutoPreset(length) \in 1 .. 10
         /\ RecommendedBytes[AutoPreset(length)] = length
<1>1. length = 1 \/ length = 2 \/ length = 3 \/ length = 4
  OBVIOUS
<1> QED
  BY <1>1 DEF AutoPreset, RecommendedBytes

\* After awt_open and after awt_setup, preset, payload and limit stand in the
\* relation ParamInv to the arguments of the call.
THEOREM ParamInvariant == ParamSpec => []ParamInv
<1> USE ParamConstants DEF ParamConstants
<1>1. ParamInit => ParamInv
  <2> SUFFICES ASSUME ParamInit PROVE ParamInv
    OBVIOUS
  <2> PICK length \in Payloads, second \in Seconds :
         /\ payload_length = Clamp(length, 1, 4)
         /\ limit = LimitOf(second)
         /\ Open2(length, second) \/ \E p \in Presets : Open(p, length, second)
         /\ phase = "opened"
    BY DEF ParamInit
  <2>1. CASE Open2(length, second)
    BY <2>1 DEF Open2, ParamInv
  <2>2. ASSUME NEW p \in Presets, Open(p, length, second)
        PROVE  ParamInv
    <3>1. PresetArgument(p) \in {-1} \cup 1 .. 10 /\ (p = -1 => PresetArgument(p) = -1)
      BY PresetClamped DEF PresetArgument
    <3> QED
      BY <2>2, <3>1 DEF Open, ParamInv
  <2> QED
    BY <2>1, <2>2
<1>2. ParamInv /\ [ParamNext]_paramVars => ParamInv'
  <2> SUFFICES ASSUME ParamInv, [ParamNext]_paramVars PROVE ParamInv'
    OBVIOUS
  <2>1. CASE Setup
    <3>1. payload_length \in 1 .. 4
      BY PayloadClamped DEF ParamInv
    <3>2. AutoPreset(payload_length) \in 1 .. 10
      BY <3>1, AutoPresetKnown
    <3> QED
      BY <2>1, <3>2 DEF Setup, Resolved, ParamInv
  <2>2. CASE UNCHANGED paramVars
    BY <2>2 DEF paramVars, ParamInv
  <2> QED
    BY <2>1, <2>2 DEF ParamNext, ParamDone
<1> QED
  BY <1>1, <1>2, PTL DEF ParamSpec

\* The "Invalid preset" branch of awt_setup is dead for every client.
THEOREM PresetAlwaysValid == ParamSpec => []NoInvalidPreset
<1>1. ParamInv => NoInvalidPreset
  BY DEF ParamInv, NoInvalidPreset
<1> QED
  BY <1>1, ParamInvariant, PTL

\* The automatic preset is one recommended for the payload.
THEOREM AutoPresetFits == ParamSpec => []AutoPresetFitsPayload
<1>1. ParamInv => AutoPresetFitsPayload
  <2> SUFFICES ASSUME ParamInv, phase = "ready", asked.preset = -1,
                      asked.payload \in 1 .. 4
               PROVE  preset \in 1 .. 10 /\ RecommendedBytes[preset] = asked.payload
    BY DEF AutoPresetFitsPayload
  <2>1. payload_length = asked.payload
    BY PayloadClamped DEF ParamInv
  <2>2. preset = AutoPreset(asked.payload)
    BY <2>1 DEF ParamInv
  <2> QED
    BY <2>2, AutoPresetKnown
<1> QED
  BY <1>1, ParamInvariant, PTL

\* The limit is exact as long as its microseconds fit an int.
THEOREM LimitExactBelowOverflow == ParamSpec => []LimitExactInRange
<1>1. ParamInv => LimitExactInRange
  <2> SUFFICES ASSUME ParamInv, asked.second * Second <= IntMax
               PROVE  limit = IF asked.second < 1 THEN NoLimit ELSE asked.second * Second
    BY DEF LimitExactInRange
  <2>1. asked.second \in Int /\ limit = LimitOf(asked.second)
    BY DEF ParamInv
  <2>2. CASE asked.second < 1
    BY <2>1, <2>2 DEF LimitOf
  <2>3. CASE asked.second >= 1
    <3>1. asked.second * Second \in Nat
      BY <2>1, <2>3, ParamConstants DEF ParamConstants
    <3> QED
      BY <2>1, <2>3, <3>1, WrapInRange DEF LimitOf
  <2> QED
    BY <2>1, <2>2, <2>3
<1> QED
  BY <1>1, ParamInvariant, PTL
=============================================================================
