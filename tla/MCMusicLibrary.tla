--------------------------- MODULE MCMusicLibrary ---------------------------
(* Instances of MusicLibrary for TLC. *)
EXTENDS MusicLibrary

\* Only a song loaded by zcmusic_load_file_ex can be sought in.
MCSeekable == {"OGGEX"}
=============================================================================
