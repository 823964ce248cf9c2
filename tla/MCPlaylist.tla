----------------------------- MODULE MCPlaylist -----------------------------
(* Small instances of PlaylistMachine for TLC. *)
EXTENDS PlaylistMachine

CONSTANTS s1, s2

OneSong == <<s1>>
TwoSongs == <<s1, s2>>
ThreeSongs == <<s1, s2, s1>>
FourSongs == <<s1, s2, s1, s2>>
=============================================================================
