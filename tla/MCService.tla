---- MODULE MCService ----
EXTENDS Service, TLC
\* Both uploads are quick, or the second outlasts a task.
MCWorks == {(1 :> 1) @@ (2 :> 2), (1 :> 2) @@ (2 :> 4)}

\* Originals at and beyond each limit, cut short, mislabelled, turned, of odd sides.
Plain == [head |-> "PNG", declared |-> "image/png", size |-> 1, parses |-> TRUE, whole |-> TRUE,
          w |-> 5, h |-> 2, turned |-> FALSE,
          alpha |-> TRUE, blocks |-> <<>>, millis |-> 0, audio |-> FALSE]
Photo == [Plain EXCEPT !.head = "FFD8FF", !.declared = "image/jpeg"]
Gif(blocks) == [Plain EXCEPT !.head = "GIF89a", !.declared = "image/gif", !.w = 4, !.h = 3,
                             !.blocks = blocks, !.millis = 3]
Mp4 == [Plain EXCEPT !.head = "ftyp isom", !.declared = "video/mp4", !.audio = TRUE,
                     !.millis = 2]
Loop == Gif(<<"extension", "frame", "frame", "trailer">>)
MCOriginals ==
  {[Plain EXCEPT !.size = n] : n \in {0, 3}}
  \cup {[Plain EXCEPT !.w = side[1], !.h = side[2]] :
          side \in {<<0, 1>>, <<1, 6>>, <<6, 3>>, <<6, 4>>, <<3, 3>>, <<7, 1>>}}
  \cup {[Photo EXCEPT !.turned = t, !.whole = b] : t \in BOOLEAN, b \in BOOLEAN}
  \cup {[Plain EXCEPT !.parses = FALSE], [Photo EXCEPT !.declared = "video/mp4"],
        [Plain EXCEPT !.head = "EBML"], [Photo EXCEPT !.declared = "none"]}
  \cup {Loop, [Loop EXCEPT !.w = 1], [Loop EXCEPT !.head = "RIFF WEBP", !.declared = "image/webp"],
        Gif(<<"frame", "extension">>), Gif(<<"frame", "frame", "frame">>),
        Gif(<<"frame", "junk">>), Gif(<<"frame", "frame", "frame", "junk">>)}
  \cup {[Mp4 EXCEPT !.turned = t, !.audio = a, !.w = w] : t \in BOOLEAN, a \in BOOLEAN, w \in {0, 1, 5, 7}}
  \cup {[Mp4 EXCEPT !.millis = n] : n \in {0, 3, 4}}
  \cup {[Mp4 EXCEPT !.parses = FALSE], [Mp4 EXCEPT !.whole = FALSE]}
MCEdits == {[start |-> 0, end |-> 0, muted |-> FALSE], [start |-> 1, end |-> 0, muted |-> TRUE],
            [start |-> 1, end |-> 3, muted |-> FALSE]}
====
