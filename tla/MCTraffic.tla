------------------------------ MODULE MCTraffic ------------------------------
(* What travels over an established group.  The components do not interact: a  *)
(* behaviour chooses one of them (part) and stays in it, the others keep their *)
(* initial state, and TLC explores the sum of their state spaces, not the      *)
(* product.                                                                    *)
EXTENDS AppStream, Chat, Voice, Signals, MediaKeys

VARIABLE part

\* One reader of texts crashes, the other relays; all go through an epoch change
MCMaxCrash == <<0, 1, 0>>
MCMaxTextEpoch == <<2, 2, 2>>

\* Member 1 signals twice and member 2 once, with a request id that both use
MCRequestIds == <<{1, 2}, {1}>>
MCMaxSignals == <<2, 1>>

mcvars == <<part, streamvars, chatvars, voicevars, signalvars, keyvars>>

MCInit ==
    /\ part \in {"streams", "texts", "audio", "signals", "keys"}
    /\ StreamInit /\ ChatInit /\ VoiceInit /\ SignalsInit /\ KeysInit
    /\ part # "keys" => ~ ffi

StreamsStep ==
    part = "streams" /\ StreamNext
    /\ UNCHANGED <<part, chatvars, voicevars, signalvars, keyvars>>

TextsStep ==
    part = "texts" /\ ChatNext
    /\ UNCHANGED <<part, streamvars, voicevars, signalvars, keyvars>>

AudioStep ==
    part = "audio" /\ VoiceNext
    /\ UNCHANGED <<part, streamvars, chatvars, signalvars, keyvars>>

SignalsStep ==
    part = "signals" /\ SignalsNext
    /\ UNCHANGED <<part, streamvars, chatvars, voicevars, keyvars>>

KeysStep ==
    part = "keys" /\ KeysNext
    /\ UNCHANGED <<part, streamvars, chatvars, voicevars, signalvars>>

MCNext == StreamsStep \/ TextsStep \/ AudioStep \/ SignalsStep \/ KeysStep

MCSpec == MCInit /\ [][MCNext]_mcvars

==============================================================================
