------------------------------- MODULE MCEarning -------------------------------
(***************************************************************************)
(* A rule of each frequency, one of them for events and campaigns alike;   *)
(* a fixed and a percentage burn; a fuel station that matches one rule,    *)
(* two, or two of which the second has no amount.                          *)
(***************************************************************************)
EXTENDS Earning, TLC

CONSTANTS r1, r2

MCRules ==
    {[trigger |-> "signup", frequency |-> "once", reward |-> 1, perAmount |-> FALSE,
      min |-> 1, paths |-> {"event", "gvr", "campaign"}],
     [trigger |-> "visit", frequency |-> "daily", reward |-> 1, perAmount |-> TRUE,
      min |-> 2, paths |-> {"event", "campaign"}],
     [trigger |-> "fuel", frequency |-> "yearly", reward |-> 1, perAmount |-> TRUE,
      min |-> 2, paths |-> {"gvr"}]}

Fixed == [type |-> "FIXED", frequency |-> "anytime", min |-> 1, limit |-> 3,
          factor |-> 2, percent |-> 0]
Percentage == [type |-> "PERCENTAGE", frequency |-> "daily", min |-> 1, limit |-> 2,
               factor |-> 1, percent |-> 10]

MCBurnRules == {Fixed, Percentage}
MCBurnLists == {<< <<Fixed, 3>> >>, << <<Fixed, 3>>, <<Percentage, 3>> >>,
                << <<Fixed, 3>>, <<Fixed, 0>> >>}

\* Requests are interchangeable.
Symmetry == Permutations(Requests)

=============================================================================
