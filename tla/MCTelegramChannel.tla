--------------------------- MODULE MCTelegramChannel ---------------------------
(* Threads that talk while the bridge tires, stops and dies, and one or two  *)
(* approvals that are announced, decided here or there, or left.             *)
EXTENDS TelegramChannel

Talk(t) == [kind |-> "talk", thread |-> t, stranger |-> FALSE]
Intrude(t) == [kind |-> "talk", thread |-> t, stranger |-> TRUE]
Press(a, d, stranger) == [kind |-> "press", of |-> a, decision |-> d, stranger |-> stranger]

Plain == [script |-> <<>>, lives |-> 2, asks |-> {}, panel |-> FALSE, lapses |-> FALSE,
          fails |-> FALSE, tires |-> FALSE, stops |-> FALSE, mortal |-> FALSE]

Pair == [Plain EXCEPT !.script = <<Talk(1), Intrude(1), Talk(1)>>, !.fails = TRUE,
                      !.tires = TRUE, !.lives = 1]
Both == [Plain EXCEPT !.script = <<Talk(1), Talk(2)>>, !.stops = TRUE]
Again == [Plain EXCEPT !.script = <<Talk(1), Talk(1)>>, !.stops = TRUE, !.mortal = TRUE]
Asked == [Plain EXCEPT !.script = <<Talk(1), Press(1, "approve", FALSE)>>, !.asks = {1},
                       !.fails = TRUE, !.mortal = TRUE]
Raced == [Plain EXCEPT !.script = <<Talk(1), Press(1, "approve", FALSE)>>, !.asks = {1},
                       !.panel = TRUE, !.lapses = TRUE, !.stops = TRUE]
Barred == [Plain EXCEPT !.script = <<Talk(1), Press(1, "deny", TRUE), Press(1, "approve", FALSE)>>,
                        !.asks = {1}, !.lapses = TRUE, !.lives = 1]
Crowd == [Plain EXCEPT !.script = <<Talk(1)>>, !.asks = {1, 2}, !.panel = TRUE, !.lives = 1]

MCScenes == {Pair, Both, Again, Asked, Raced, Barred, Crowd}
=============================================================================
