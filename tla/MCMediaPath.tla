----------------------------- MODULE MCMediaPath -----------------------------
(* The media behind the channels on small instances; the groups of pictures *)
(* have no, one, two, or three B pictures, the last ones in a hierarchy.    *)
EXTENDS MediaPath

MCGroups == { <<1>>, <<2, 1>>, <<3, 1, 2>>, <<4, 2, 1, 3>> }
=============================================================================
