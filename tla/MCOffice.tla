------------------------------ MODULE MCOffice ------------------------------
(***************************************************************************)
(* The desks whose promises are about single states and steps, side by     *)
(* side for TLC.  They share no state, so a behaviour is one of any of     *)
(* them: part says of which.                                               *)
(***************************************************************************)
EXTENDS ContactDesk, RateWindow, WhatsAppLink, WorkspaceSettings, SlotSearch, BookingDesk, TLC

VARIABLE part

\* Weekdays that are closed, open all day, from an odd time, or closing before they open
WeekdayHours == {Shut, <<0, 4>>, <<1, 4>>, <<3, 1>>}

\* The sessions that book are alike.
Symmetry == Permutations(Desks)

OfficeInit ==
  /\ part \in {"contact", "limits", "whatsapp", "settings", "availability", "bookings"}
  /\ DeskInit /\ RateInit /\ LinkInit /\ SettingsInit /\ SearchInit /\ Init
  /\ part # "availability" => hours = [d \in Days |-> Shut] /\ asked = NoDay /\ present = 0 /\ taken = {}

OfficeNext ==
  /\ UNCHANGED part
  /\ \/ /\ part = "contact" /\ DeskNext
        /\ UNCHANGED <<rateVars, linkVars, settingsVars, searchVars, vars>>
     \/ /\ part = "limits" /\ RateNext
        /\ UNCHANGED <<deskVars, linkVars, settingsVars, searchVars, vars>>
     \/ /\ part = "whatsapp" /\ LinkNext
        /\ UNCHANGED <<deskVars, rateVars, settingsVars, searchVars, vars>>
     \/ /\ part = "settings" /\ SettingsNext
        /\ UNCHANGED <<deskVars, rateVars, linkVars, searchVars, vars>>
     \/ /\ part = "availability" /\ SearchNext
        /\ UNCHANGED <<deskVars, rateVars, linkVars, settingsVars, vars>>
     \/ /\ part = "bookings" /\ Next
        /\ UNCHANGED <<deskVars, rateVars, linkVars, settingsVars, searchVars>>

officeVars == <<part, deskVars, rateVars, linkVars, settingsVars, searchVars, vars>>

OfficeSpec == OfficeInit /\ [][OfficeNext]_officeVars

============================================================================
