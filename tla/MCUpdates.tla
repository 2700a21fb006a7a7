----------------------------- MODULE MCUpdates ------------------------------
(* Small instances of Updates for TLC. *)
EXTENDS Updates

\* Every encoding, images before and after other draws, and resizing, spread
\* over servers.  Raw, RRE and hextile are not sent after an image of the update.
EveryEncoding ==
  {{<<"raw">>, <<"copyRect", "emptyRaw">>, <<"rre", "tightJpeg">>, <<"hextile">>},
   {<<"zrle", "lastRect">>, <<"tightJpeg", "tightPalette">>, <<"tightPng", "tightFew", "tightJpeg">>,
    <<"tightCopy", "tightFill">>},
   {<<"jpeg">>, <<"jpegQuant">>, <<"jpegBare", "tightFill">>},
   {<<"cursor", "qemuKey">>, <<"vmwareCursor", "name">>, <<"size2", "resizeRefused">>,
    <<"tightJpeg", "extendedSize2", "tightFill">>, <<"tightJpeg", "size1">>},
   {<<"tightGradient">>, <<"pngInTight">>, <<"badHextile">>, <<"other">>, <<"tightJpeg">>}}
=============================================================================
