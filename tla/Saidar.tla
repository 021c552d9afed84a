------------------------------- MODULE Saidar --------------------------------
(***************************************************************************)
(* saidar, the display of libstatgrab: a loop that waits for a key or for  *)
(* the delay to pass, reads all statistics unless it did within the last   *)
(* second, and draws them.  The process table, the file systems and the    *)
(* other statistics without a memory are left out of a reading.            *)
(***************************************************************************)
EXTENDS Statgrab

CONSTANTS
  Delay,     \* option -d: seconds to wait for a key, at least 1
  MaxKeys,   \* bound on the keys pressed
  MaxResizes \* bound on the resizes of the terminal

ASSUME SaidarAssumption ==
  Delay \in Nat \ {0} /\ MaxKeys \in Nat /\ MaxResizes \in Nat

VARIABLES
  at,             \* where the loop is
  in_loop,        \* the first reading, before the loop, is over
  elapsed,        \* now - last_update, at most 1
  waited,         \* seconds getch has waited
  stats,          \* the statistics drawn: those not null
  sig_winch_flag,
  keys, resizes,  \* counts against the bounds
  gap             \* ghost: seconds since the loop last began a reading, at most 1

saidarVars == <<at, in_loop, elapsed, waited, stats, sig_winch_flag, keys, resizes, gap>>

\* last_update is 0, long ago: the reading before the loop does not set it.
SaidarInit ==
  /\ at = "cpu" /\ in_loop = FALSE
  /\ elapsed = 1 /\ gap = 1
  /\ waited = 0
  /\ stats = {}
  /\ sig_winch_flag = FALSE
  /\ keys = 0 /\ resizes = 0

\* One statistic of a reading; a null pointer is not drawn.  After the reading
\* before the loop only the headings are drawn.
Take(here, there) ==
  /\ at = here
  /\ at' = there
  /\ stats' = IF returned'.null THEN stats \ {here} ELSE stats \cup {here}
  /\ in_loop' = (in_loop \/ here = "disk")
  /\ UNCHANGED <<elapsed, waited, sig_winch_flag, keys, resizes, gap>>

get_stats ==
  \/ sg_get_cpu_percents /\ Take("cpu", "page")
  \/ sg_get_page_stats_diff /\ Take("page", "net")
  \/ sg_get_network_io_stats_diff /\ Take("net", "disk")
  \/ sg_get_disk_io_stats_diff /\ Take("disk", IF in_loop THEN "redraw" ELSE "getch")

\* The clock: seconds pass while the loop waits, and while it reads.
Second ==
  /\ at # "quit"
  /\ elapsed' = 1 /\ gap' = 1
  /\ waited' = IF at = "getch" /\ waited < Delay THEN waited + 1 ELSE waited
  /\ <<elapsed, gap, waited>> # <<1, 1, waited'>>
  /\ UNCHANGED <<vars, at, in_loop, stats, sig_winch_flag, keys, resizes>>

\* Mutant: every key has the statistics read.
Always_Returned ==
  /\ waited' = 0 /\ elapsed' = 0 /\ gap' = 0
  /\ at' = "cpu"
  /\ UNCHANGED <<vars, in_loop, stats, sig_winch_flag, resizes>>

\* getch returned: last_update becomes the time before the reading.
Returned ==
  /\ waited' = 0
  /\ elapsed' = 0
  /\ IF elapsed >= 1 THEN at' = "cpu" /\ gap' = 0 ELSE at' = "redraw" /\ UNCHANGED gap
  /\ UNCHANGED <<vars, in_loop, stats, sig_winch_flag, resizes>>

\* Mutant: a second too late, when getch waits no longer.
Late_Timeout ==
  /\ at = "getch" /\ waited > Delay
  /\ Returned
  /\ UNCHANGED keys

Timeout ==
  /\ at = "getch" /\ waited >= Delay
  /\ Returned
  /\ UNCHANGED keys

Key ==
  /\ at = "getch" /\ keys < MaxKeys
  /\ keys' = keys + 1
  /\ Returned

Quit ==
  /\ at = "getch"
  /\ at' = "quit"
  /\ UNCHANGED <<vars, in_loop, elapsed, waited, stats, sig_winch_flag, keys, resizes, gap>>

\* The handler; it may run between any two steps, also between the drawing of the
\* headings and the reset of the flag, which then forgets the resize.
sig_winch_handler ==
  /\ at # "quit" /\ resizes < MaxResizes
  /\ resizes' = resizes + 1
  /\ sig_winch_flag' = TRUE
  /\ UNCHANGED <<vars, at, in_loop, elapsed, waited, stats, keys, gap>>

\* After a resize clear() and display_headings(), then the flag; then the data.
Redraw ==
  /\ at = "redraw"
  /\ at' = IF sig_winch_flag THEN "headings" ELSE "getch"
  /\ UNCHANGED <<vars, in_loop, elapsed, waited, stats, sig_winch_flag, keys, resizes, gap>>

ResetFlag ==
  /\ at = "headings"
  /\ sig_winch_flag' = FALSE
  /\ at' = "getch"
  /\ UNCHANGED <<vars, in_loop, elapsed, waited, stats, keys, resizes, gap>>

SaidarStep == get_stats \/ Second \/ Timeout \/ Redraw \/ ResetFlag

SaidarNext == SaidarStep \/ Key \/ Quit \/ sig_winch_handler

\* The display over any kernel.
SaidarSpec ==
  Init /\ SaidarInit
    /\ [][SaidarNext \/ (Kernel /\ UNCHANGED saidarVars)]_<<vars, saidarVars>>

-----------------------------------------------------------------------------
\* "We do not want them updating more frequently than once a second": a reading in
\* the loop begins a second of the clock or more after the one before, however fast keys come
\* and however long a reading takes.  (The reading before the loop does not count:
\* a key pressed right after it has the statistics read again.)
UpdatesAreSpaced ==
  [][at = "getch" /\ at' = "cpu" => gap >= 1]_<<at, gap>>

\* Where the loop comes to again and again once keys stop coming: keys less than a
\* second apart keep the display from being read, as each sets last_update.
ReadingOrQuit == at \in {"cpu", "quit"}
ResizeNoticed == ~sig_winch_flag \/ at = "quit"
=============================================================================
