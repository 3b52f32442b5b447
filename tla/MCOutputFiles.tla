---------------------------- MODULE MCOutputFiles ----------------------------
(* Small instances of OutputFiles for TLC.                                 *)
EXTENDS OutputFiles, TLC

CONSTANTS t1, t2, c1

MCExtends == {<<s, s>> : s \in Stems}
             \cup {<<"film", "film+">>, <<"film", "film_temp">>}

Name(s) == [stem |-> s, ext |-> NoExt]

\* Both record into one directory.  Film is recorded with N_m3u8DL-RE and converted: a
\* ts is expected of the recorder, which may write an mp4 and under a longer name.
\* News is recorded with ffmpeg and kept as it is; its template hides its name.
MCRequest ==
    (t1 :> [dir |-> Blank, template |-> NoText, name |-> "film",
            default |-> Name("news"), mode |-> NoText,
            engine |-> "N_m3u8DL-RE"])
    @@ (t2 :> [dir |-> "in", template |-> "news", name |-> "film",
               default |-> Name("film"), mode |-> "off",
               engine |-> "ffmpeg"])

MCCleaned == [x \in {"film", "news", Blank} |->
                 Name(IF x = Blank THEN "news" ELSE x)]

\* News is started on the last of the days only, so that its row does not expire.
NewsLater == today = 0 => t2 \notin started
=============================================================================
