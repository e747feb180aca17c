----------------------------- MODULE MCPortSlots -----------------------------
(***************************************************************************)
(* PortSlots for TLC: two servers and two slots, in six settings.          *)
(***************************************************************************)
EXTENDS PortSlots

CONSTANTS s1, s2

MCServers == {s1, s2}

\* One server is watched and nothing disturbs PZAdmin: starts, stops, probes
\* with late answers, the watchdog.
Undisturbed == [watched |-> {s1}, deployed |-> {}, stopped |-> MCServers, disturbed |-> {}]

\* Nobody is watched, but Arcane is used directly, answers are lost and
\* PZAdmin is killed.
Disturbed == [watched |-> {}, deployed |-> {}, stopped |-> {s1},
              disturbed |-> {"arcane start", "lost answer", "pzadmin restart",
                             "start while busy"}]

\* PZAdmin is killed, and a monitor has to find out what runs.
Restarted == [watched |-> {s1}, deployed |-> {}, stopped |-> {s1},
              disturbed |-> {"pzadmin restart"}]

\* Another scan overlaps the starts.
Overlapped == [watched |-> {}, deployed |-> {}, stopped |-> {s1}, disturbed |-> {"late scan"}]

\* A start's own scan reads nothing, or cannot be saved.
Unsaved == [watched |-> {}, deployed |-> {}, stopped |-> {s1}, disturbed |-> {"bad scan"}]

\* The Deploy button is pressed for a server that is started and stopped too.
Deployed == [watched |-> {}, deployed |-> {s1}, stopped |-> {s1}, disturbed |-> {}]

MCSettings == {Undisturbed, Disturbed, Restarted, Overlapped, Unsaved, Deployed}
=============================================================================
