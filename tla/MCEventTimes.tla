---------------------------- MODULE MCEventTimes ----------------------------
(***************************************************************************)
(* Instance of EventTimes for TLC.                                         *)
(***************************************************************************)
EXTENDS EventTimes

CONSTANTS root, guest

TwoUsers == {root, guest}

\* Every style with two reasons and users, and of the rest one of each.
SomeTexts ==
    [style: {"iso", "syslog", "none"}, form: {"failed"}, user: TwoUsers]
      \union [style: {"iso", "syslog"}, form: {"failed_invalid", "invalid"}, user: {root}]
      \union {[style |-> "other", form |-> "failed", user |-> root],
              [style |-> "iso", form |-> "failed", user |-> Bad],
              [style |-> "iso", form |-> "marked", user |-> root],
              [style |-> "syslog", form |-> "foreign", user |-> root]}
=============================================================================
