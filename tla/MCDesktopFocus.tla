--------------------------- MODULE MCDesktopFocus ---------------------------
(***************************************************************************)
(* DesktopFocus for TLC: three windows, two of one application, on two      *)
(* desktops; and one or two windows with up to three desktops that come and *)
(* go.                                                                      *)
(***************************************************************************)
EXTENDS DesktopFocus

CONSTANTS w1, w2, w3, d1, d2, d3

MCWindows == {w1, w2, w3}
MCDesktops == {d1, d2, d3}
MCApp == [w \in MCWindows |-> IF w = w3 THEN "other" ELSE "one"]
AnApplication(requests, end) ==
    [windows |-> MCWindows, start |-> <<d1, d2>>, desktops |-> {d1, d2},
     requests |-> requests, minimizedEnd |-> end]
ADesktop(windows, requests) ==
    [windows |-> windows, start |-> <<d1, d2>>, desktops |-> MCDesktops,
     requests |-> requests, minimizedEnd |-> FALSE]
MCScenarios == {AnApplication({"minimize"}, TRUE),
                AnApplication({"stick", "share", "drag"}, FALSE),
                ADesktop({w1, w3}, {"stick"}), ADesktop({w1, w3}, {"share"}),
                ADesktop({w1, w3}, {"drag"}), ADesktop({w1}, {"drag", "share"})}
=============================================================================
