---------------------------- MODULE MCCategories -----------------------------
(* Categories with a name in two spellings, a third spelling of it that the*)
(* device cannot hold, a name too long for the device, a plain one, and one*)
(* that the two decoders read differently: CategoryInfo maps the           *)
(* Windows-1252 byte of the euro sign, categoryappinforeader does not      *)
(* ("unreadable").                                                         *)
EXTENDS Categories

MCTexts == {"Unfiled", "Work", "WORK", "Home", "Meeting minutes 2026", "Meeting minutes",
            "Euro sign", "unreadable", "Wor(Kelvin sign)", "Wor?"}
MCWanted == {"Work", "Wor(Kelvin sign)", "Home", "Meeting minutes 2026"}
MCUserNames == {"WORK", "Home", "Meeting minutes", "Euro sign"}
MCFold == [n \in MCTexts |-> IF n \in {"WORK", "Wor(Kelvin sign)"} THEN "Work" ELSE n]
MCKept == [n \in MCTexts |-> CASE n = "Meeting minutes 2026" -> "Meeting minutes"
                              [] n = "Wor(Kelvin sign)" -> "Wor?"
                              [] OTHER -> n]
MCShown == [n \in MCTexts |-> IF n = "Euro sign" THEN "unreadable" ELSE n]

=============================================================================
