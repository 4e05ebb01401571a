----------------------------- MODULE AwtParams ------------------------------
(***************************************************************************)
(* What becomes of the parameters of awt_open and awt_open2 (src/src/awt.c) *)
(* up to the call of awt5_decode_stream_init: the clamps, the limit on the  *)
(* duration, and the preset that awt_setup resolves on its first attempt    *)
(* and finds resolved on every later one.                                   *)
(*                                                                          *)
(* Frequencies are in Hz as in the code.  The width of int and the number   *)
(* of microseconds in a second are parameters, so that a small instance     *)
(* shows what a 32-bit one does (IntMax = 2^31 - 1, Second = 1000000).      *)
(***************************************************************************)
EXTENDS Integers, Sequences

CONSTANTS
    Presets,    \* values a client passes for preset
    Payloads,   \* values a client passes for payload_length
    Seconds,    \* values a client passes for second
    IntMax,     \* INT_MAX
    Second,     \* AV_TIME_BASE, the 1000000 of awt_open_internal
    NoLimit,    \* INT64_MAX
    MaxSetups   \* bound: attempts of awt_setup

ASSUME ParamConstants ==
    /\ Presets \subseteq Int /\ Payloads \subseteq Int /\ Seconds \subseteq Int
    /\ IntMax \in Nat /\ Second \in Nat \ {0} /\ Second <= IntMax
    /\ NoLimit \in Nat /\ NoLimit > IntMax
    /\ MaxSetups \in Nat

VARIABLES
    phase,          \* "opened", "ready" (for the SDK) or "rejected"
    preset,         \* awt->preset
    payload_length, \* awt->payload_length
    limit,          \* awt->second
    params,         \* the preset whose frequencies and frames are set, 0 for those
                    \* of the client, -1 for none
    asked,          \* history: the arguments of the call that opened the handle
    setups          \* history: attempts of awt_setup so far

paramVars == <<phase, preset, payload_length, limit, params, asked, setups>>

-----------------------------------------------------------------------------
\* FFMAX(low, FFMIN(high, n))
Clamp(n, low, high) == IF n > high THEN high ELSE IF n < low THEN low ELSE n

\* int arithmetic wraps around: the library is built without optimisation.
Wrap(n) == ((n + IntMax + 1) % (2 * (IntMax + 1))) - (IntMax + 1)

\* second < 1 ? INT64_MAX : (second * 1000000), the product being an int.
LimitFloored(second) == IF second < 0 THEN NoLimit ELSE Wrap(second * Second)
LimitOf(second)      == IF second < 1 THEN NoLimit ELSE Wrap(second * Second)

\* preset != -1 ? FFMAX(1, FFMIN(10, preset)) : -1
PresetUnclamped(p) == p
PresetArgument(p)  == IF p # -1 THEN Clamp(p, 1, 10) ELSE -1

\* awt_setup's switch over the payload length, for preset -1.
AutoPresetShifted(length) == length
AutoPreset(length) ==
    CASE length = 1 -> 1
      [] length = 2 -> 2
      [] length = 3 -> 4
      [] length = 4 -> 6
      [] length = 6 -> 8
      [] length = 8 -> 10
      [] OTHER -> -1

\* Payload sizes the comments of the switch over the preset recommend each preset for.
RecommendedBytes == <<1, 2, 2, 3, 3, 4, 4, 6, 6, 8>>

-----------------------------------------------------------------------------
\* awt_open
Open(p, length, second) ==
    /\ preset = PresetArgument(p)
    /\ params = -1
    /\ asked = [preset |-> p, payload |-> length, second |-> second]

\* awt_open2: the carrier parameters come from the client, preset stays 0.
Open2(length, second) ==
    /\ preset = 0
    /\ params = 0
    /\ asked = [preset |-> 0, payload |-> length, second |-> second]

ParamInit ==
    \E length \in Payloads, second \in Seconds :
       /\ payload_length = Clamp(length, 1, 4)
       /\ limit = LimitOf(second)
       /\ Open2(length, second) \/ \E p \in Presets : Open(p, length, second)
       /\ phase = "opened" /\ setups = 0

\* awt_setup up to the licence, run again after an attempt that failed later.
Resolved == IF preset = -1 THEN AutoPreset(payload_length) ELSE preset

Setup ==
    /\ phase # "rejected"
    /\ setups < MaxSetups
    /\ setups' = setups + 1
    /\ preset' = Resolved
    /\ phase' = IF Resolved = -1 \/ Resolved > 10 THEN "rejected" ELSE "ready"
    /\ params' = IF Resolved \in 1 .. 10 THEN Resolved ELSE params
    /\ UNCHANGED <<payload_length, limit, asked>>

ParamDone ==
    /\ phase = "rejected" \/ setups = MaxSetups
    /\ UNCHANGED paramVars

ParamNext == Setup \/ ParamDone

ParamSpec == ParamInit /\ [][ParamNext]_paramVars

-----------------------------------------------------------------------------
\* "Invalid preset" (awt.c:139-143) cannot happen: whatever the client passes,
\* the clamps of awt_open leave only presets that awt_setup knows or resolves.  So
\* the SDK never gets parameters that are not set, nor those of another preset,
\* at the first attempt of awt_setup or at a later one.
NoInvalidPreset ==
    /\ phase # "rejected"
    /\ phase = "ready" => params = preset

\* A client that leaves the choice to the library gets a preset that the table
\* recommends for the payload length it asked for, as long as that is 1 to 4.
AutoPresetFitsPayload ==
    phase = "ready" /\ asked.preset = -1 /\ asked.payload \in 1 .. 4
        => preset \in 1 .. 10 /\ RecommendedBytes[preset] = asked.payload

\* Up to the largest second whose microseconds fit an int, the limit is exact.
LimitExactInRange ==
    asked.second * Second <= IntMax =>
        limit = IF asked.second < 1 THEN NoLimit ELSE asked.second * Second

\* awt.h:14, "second: 0...n, 0 = no limit, limit duration when processing": for
\* every second, not only for those whose microseconds fit an int.
LimitExact == asked.second >= 1 => limit = asked.second * Second
=============================================================================
