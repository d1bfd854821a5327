---------------------------- MODULE MCMediaPath ----------------------------
(***************************************************************************)
(* The inputs of MediaPath for TLC: hosts around one allowed domain and    *)
(* one blocked subdomain of it, formats around the tiers' short sides and  *)
(* the titles that fit, exceed or are cut at the budget of a file name.    *)
(***************************************************************************)
EXTENDS MediaPath

MCLabel   == {NoLabel, "www", "music", "youtube", "YouTube", "evilyoutube", "com"}
MCLowered == [l \in MCLabel |-> IF l = "YouTube" THEN "youtube" ELSE l]
MCLower   == [k \in {"youtube"} |-> k]

MCHost ==
    {<< >>, <<"youtube", "com">>, <<"YouTube", "com", NoLabel>>,
     <<"www", "youtube", "com">>, <<"evilyoutube", "com">>,
     <<"youtube", "com", "www">>, <<"music", "YouTube", "com">>,
     <<"www", "music", "youtube", "com", NoLabel>>, <<NoLabel>>,
     <<NoLabel, "youtube", "com">>, <<"youtube", NoLabel, "com">>}

MCLink ==
    [scheme : {"https", "ftp", ""}, host : MCHost, extra : BOOLEAN,
     brackets : BOOLEAN, photo : BOOLEAN, words : {{}, {"geo"}}]

MCAllowed == {<<"youtube", "com">>}
MCBlocked == {<<NoLabel, "music", "YouTube", "com">>}

MCFormat ==
    [vcodec : {"none", "h264", "vp9"}, width : {0, 720, 1920}, height : {800, 1080}]

MCTitle == UNION {[1..n -> Char] : n \in 0..3} \cup [1..4 -> DOMAIN Bytes]

=============================================================================
