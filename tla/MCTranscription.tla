--------------------------- MODULE MCTranscription ---------------------------
EXTENDS Transcription

MCU(s, e, v, d) == [start |-> s, end |-> e, voice |-> v, doubt |-> d]
MCTracks ==
    [t \in {"short", "other", "long", "dense", "reply", "noisy"} |->
        CASE t = "short" -> [duration |-> 20, silences |-> {}, energy |-> [i \in 1 .. 19 |-> 1],
                             speech |-> << MCU(1, 7, 1, 0), MCU(7, 12, 2, 0), MCU(13, 19, 1, 0) >>]
          [] t = "other" -> [duration |-> 12, silences |-> {}, energy |-> [i \in 1 .. 11 |-> 1],
                             speech |-> << MCU(0, 5, 2, 0), MCU(5, 11, 3, 20) >>]
          [] t = "long" -> [duration |-> 48, silences |-> {25, 22, 40}, energy |-> [i \in 1 .. 47 |-> i % 3],
                             speech |-> << MCU(2, 10, 1, 0), MCU(20, 25, 2, 0), MCU(23, 40, 1, 0) >>]
          [] t = "reply" -> [duration |-> 18, silences |-> {}, energy |-> [i \in 1 .. 17 |-> 1],
                             speech |-> << MCU(2, 8, 1, 0), MCU(8, 9, 1, 0), MCU(9, 16, 2, 0) >>]
          [] t = "noisy" -> [duration |-> 48, silences |-> {40},
                             energy |-> [i \in 1 .. 47 |-> IF i \in {21, 27} THEN 0 ELSE 1],
                             speech |-> << MCU(2, 8, 1, 0), MCU(17, 25, 2, 0), MCU(28, 40, 1, 0) >>]
          [] t = "dense" -> [duration |-> 30, silences |-> {}, energy |-> [i \in 1 .. 29 |-> 1],
                             speech |-> << MCU(0, 6, 1, 0), MCU(6, 12, 2, 0), MCU(12, 18, 1, 0),
                                           MCU(18, 24, 2, 0), MCU(24, 30, 1, 0) >>]]

MCH(w, s, e, r) == [who |-> w, start |-> s, end |-> e, role |-> r]
MCOne(t, p, hints, edits) ==
    [audio |-> << [role |-> 1, track |-> t] >>, prompt |-> p, hints |-> hints, edits |-> edits]
MCTwo(t, u, p, hints) ==
    [audio |-> << [role |-> 1, track |-> t], [role |-> 2, track |-> u] >>, prompt |-> p,
     hints |-> hints, edits |-> <<>>]

MCApart == << MCH(101, 0, 7, 1), MCH(102, 7, 12, 1) >>
MCEnd == << MCH(101, 0, 12, 1), MCH(102, 13, 19, 1) >>
MCTurns == << MCH(101, 0, 6, 1), MCH(102, 6, 12, 1), MCH(101, 12, 18, 1), MCH(102, 18, 24, 1), MCH(101, 24, 30, 1) >>
MCRounded == << MCH(101, 0, 8, 1), MCH(102, 8, 15, 1) >>  \* takes in the end of a neighbour
MCSticking == << MCH(101, 7, 15, 1) >>                    \* and here the answer sticks out
MCTied == << MCH(101, 4, 14, 1) >>                        \* nobody has more of it
MCEdit == << [of |-> 2, start |-> 7, end |-> 9, role |-> 1] >>
MCScenarios ==
    { [documents |-> << MCOne("short", 1, <<>>, <<>>), MCOne("short", 1, MCApart, <<>>), MCOne("short", 1, MCEnd, <<>>), MCOne("short", 2, MCApart, MCEdit) >>,
       alike |-> <<1, 1, 1>>, similar |-> 30, runs |-> 3, faults |-> 1],
      [documents |-> << MCOne("dense", 1, <<>>, <<>>), MCOne("dense", 1, MCTurns, <<>>) >>,
       alike |-> <<1, 1, 1>>, similar |-> 30, runs |-> 3, faults |-> 0],
      [documents |-> << MCTwo("short", "other", 1, << MCH(103, 5, 11, 2) >>), MCTwo("short", "short", 1, <<>>), MCTwo("short", "other", 1, << MCH(102, 0, 12, 2), MCH(103, 5, 11, 2) >>) >>,
       alike |-> <<1, 2, 2>>, similar |-> 60, runs |-> 3, faults |-> 1],
      [documents |-> << MCOne("reply", 1, <<>>, <<>>), MCOne("reply", 1, MCRounded, <<>>), MCOne("reply", 1, MCSticking, <<>>), MCOne("reply", 1, MCTied, <<>>) >>,
       alike |-> <<1, 2>>, similar |-> 30, runs |-> 3, faults |-> 1],
      [documents |-> << MCOne("noisy", 1, << MCH(102, 17, 25, 1) >>, <<>>), MCOne("noisy", 1, << MCH(101, 2, 8, 1), MCH(102, 16, 41, 1) >>, <<>>) >>,
       alike |-> <<1, 2>>, similar |-> 30, runs |-> 2, faults |-> 0],
      [documents |-> << MCOne("long", 1, << MCH(101, 18, 25, 1) >>, <<>>), MCOne("long", 1, << MCH(101, 2, 8, 1), MCH(102, 20, 26, 1) >>, MCEdit) >>,
       alike |-> <<1, 2, 3>>, similar |-> 30, runs |-> 3, faults |-> 1] }
==============================================================================
