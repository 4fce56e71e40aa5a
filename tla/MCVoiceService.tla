--------------------------- MODULE MCVoiceService ---------------------------
(* TLC's instance of VoiceService: hosts and streams are interchangeable.  *)
EXTENDS VoiceService, TLC

Symmetry == Permutations(Hosts) \cup Permutations(OutStreams)
            \cup Permutations(InStreams)
=============================================================================
