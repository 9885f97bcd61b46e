---------------------------- MODULE MCCwDecoder ----------------------------
(* Instances of CwDecoder for TLC.                                         *)
EXTENDS CwDecoder

\* E, T, A, N and nothing of three elements but S.
KnownLetters == {<<"DIT">>, <<"DAH">>, <<"DIT", "DAH">>, <<"DAH", "DIT">>,
                 <<"DIT", "DIT", "DIT">>}
=============================================================================
