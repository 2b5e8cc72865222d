------------------------------- MODULE MCHSUtil -------------------------------
(* HSUtil for TLC: a window of three intervals with an average of two, an *)
(* interval of two cycles, and levels of 0 to 3 of which two hog.          *)
EXTENDS HSUtil

(* Nothing, two thirds, all, and twice what 24 bits can say.               *)
MCSamples == {0, 11184810, 16777215, 33554432}
=============================================================================
