------------------------------ MODULE MCLoader ------------------------------
(* Loader for TLC: every chip with the default files and options, and every  *)
(* file and option with a chip that answers.  The image has the geometry of  *)
(* the real one, the wall on a chunk's border and two zones past it that     *)
(* lie across the chunks.                                                    *)
EXTENDS Loader

Plain == [at |-> "bootrom", mood |-> "well", likes |-> "linux", mcu1 |-> TRUE,
          rev |-> "U02", stale |-> FALSE, files |-> "all", mode |-> "default",
          ending |-> "start", rival |-> FALSE]

Chips == {[Plain EXCEPT !.at = a, !.mood = m, !.likes = l, !.stale = s] :
             a \in {"storage", "bootrom"}, m \in Moods, l \in Convs, s \in BOOLEAN}
Options == {[Plain EXCEPT !.files = f] : f \in Files}
           \cup {[Plain EXCEPT !.mode = m, !.ending = e] :
                    m \in Modes, e \in {"start", "reset", "reboot"}}
           \cup {[Plain EXCEPT !.rev = r, !.mcu1 = u] : r \in {"U01", "U02", "odd"}, u \in BOOLEAN}
           \cup {[Plain EXCEPT !.at = a, !.rival = b] : a \in {"storage", "op", "off"}, b \in BOOLEAN}

MCScenarios == Chips \cup Options
OneScenario == {Plain}

Zone(s, e) == [start |-> s, end |-> e]
MCRegZones == <<Zone(10, 12), Zone(18, 20)>>
MCPointZones == <<Zone(11, 12), Zone(15, 16), Zone(19, 20)>>
NoPoisons == <<>>
OnePoison == <<9>>
=============================================================================
