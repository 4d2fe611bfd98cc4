---------------------------- MODULE MCRootLayout ----------------------------
(***************************************************************************)
(* Layouts for TLC: top-level names, names nested in @, in @home and in    *)
(* each other, and one below a plain directory, over the directories of a  *)
(* three-level image and one mountpoint the image lacks.                   *)
(***************************************************************************)
EXTENDS RootLayout

MCNames == {<<"@x">>, <<"@y">>, <<"p", "q">>, <<"p", "q", "r", "s">>,
            <<"@home", "x">>,
            <<"@", "a">>, <<"@", "a", "b">>, <<"@x", "b">>}
MCMountpoints == {<<"a">>, <<"a", "b">>, <<"a", "b", "c">>, <<"d">>, <<"home", "x">>}
MCFatMounts   == {<<"a">>, <<"a", "b">>}
MCImageDirs   == {<< >>, <<"a">>, <<"a", "b">>, <<"a", "b", "c">>}
MCHome        == <<"home">>
=============================================================================
