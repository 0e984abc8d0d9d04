-------------------------- MODULE Booking_proofs --------------------------
(*************************************************************************)
(* The booking tools, for every timetable, length of an appointment,     *)
(* horizon and number of sessions: what the search for free times offers, *)
(* and what the desk books.                                              *)
(*************************************************************************)
EXTENDS SlotSearch, BookingDesk, FiniteSetTheorems, TLAPS

----------------------------------------------------------------------------
(*************************************************************************)
(* The search: what is offered is right, whatever others do meanwhile.   *)
(*************************************************************************)

Bookable(s) == \A b \in always : ~Clash(b, s)
\* The search has passed s with reason.
Covered(s) == s \in Offers \/ \E b \in ever : Clash(b, s)

\* The moment the search has come to.
Here == IF place.pc = "slot" THEN Instant(place.day, place.cursor) ELSE place.day * DayLength

SearchTyped ==
  /\ hours \in [Days -> Timetables] /\ asked \in Days \union {NoDay} /\ present \in Nat
  /\ place \in [pc : {"day", "slot", "done"}, day : 0 .. Horizon, cursor : 0 .. DayLength]
  /\ offered \in Seq(Nat)

\* The search is on a day that it should look at, at a slot of it.
PlaceInOrder ==
  /\ place.pc = "day" => place.day \in Searched \union {Horizon}
  /\ place.pc = "slot" =>
       /\ place.day \in Searched /\ hours[place.day] # Shut
       /\ \E k \in 0 .. DayLength : place.cursor = Opens(place.day) + k * SlotLength

\* It goes on while it has not found enough, and only forward.
OffersBehind ==
  place.pc # "done" =>
    Len(offered) < Most /\ \A i \in DOMAIN offered : offered[i] + SlotLength <= Here

BehindIsCovered == place.pc # "done" => \A s \in Candidates : s < Here => Covered(s)

SearchInv == OffersAreRight /\ SearchTyped /\ PlaceInOrder /\ OffersBehind /\ BehindIsCovered

----------------------------------------------------------------------------
(* Days and slots                                                          *)

LEMMA DaysFollow ==
  ASSUME NEW a \in Nat, NEW b \in Nat, a < b
  PROVE  a * DayLength \in Nat /\ b * DayLength \in Nat /\ a * DayLength + DayLength <= b * DayLength
<1>1. PICK n \in Nat : b = a + 1 + n
  <2>1. b - a - 1 \in Nat /\ b = a + 1 + (b - a - 1)
    OBVIOUS
  <2> QED
    BY <2>1
<1>2. DayLength \in Nat
  BY SearchAssumption
<1>3. b * DayLength = a * DayLength + DayLength + n * DayLength /\ n * DayLength \in Nat /\ a * DayLength \in Nat
  BY <1>1, <1>2
<1> QED
  BY <1>2, <1>3

LEMMA SlotsFollow ==
  ASSUME NEW k \in Nat, NEW j \in Nat, k < j
  PROVE  k * SlotLength \in Nat /\ j * SlotLength \in Nat /\ k * SlotLength + SlotLength <= j * SlotLength
<1>1. PICK n \in Nat : j = k + 1 + n
  <2>1. j - k - 1 \in Nat /\ j = k + 1 + (j - k - 1)
    OBVIOUS
  <2> QED
    BY <2>1
<1>2. SlotLength \in Nat
  BY SearchAssumption
<1>3. j * SlotLength = k * SlotLength + SlotLength + n * SlotLength /\ n * SlotLength \in Nat /\ k * SlotLength \in Nat
  BY <1>1, <1>2
<1> QED
  BY <1>2, <1>3

LEMMA SlotsAreLong == ASSUME NEW k \in Nat PROVE k <= k * SlotLength /\ k * SlotLength \in Nat
<1>1. PICK n \in Nat : SlotLength = n + 1
  <2>1. SlotLength - 1 \in Nat /\ SlotLength = (SlotLength - 1) + 1
    BY SearchAssumption
  <2> QED
    BY <2>1
<1>2. k * SlotLength = k * n + k /\ k * n \in Nat
  BY <1>1
<1> QED
  BY <1>2

LEMMA HoursOf ==
  ASSUME SearchTyped, NEW d \in Days, hours[d] # Shut
  PROVE  Opens(d) \in 0 .. DayLength /\ Closes(d) \in 0 .. DayLength
<1>1. hours[d] \in {<<opens, closes>> : opens, closes \in 0 .. DayLength}
  BY TimetablesAssumption DEF SearchTyped
<1> QED
  BY <1>1 DEF Opens, Closes

LEMMA SearchedDays == SearchTyped => Searched \subseteq Days /\ Days \subseteq Nat
  BY SearchAssumption DEF SearchTyped, Searched, Days, NoDay

\* A candidate is one of the slots of a day, and within its day.
LEMMA CandidateIs ==
  ASSUME SearchTyped, NEW s \in Candidates
  PROVE  \E d \in Searched, k \in 0 .. DayLength :
           /\ hours[d] # Shut /\ d \in Days /\ s = d * DayLength + (Opens(d) + k * SlotLength) /\ s > present
           /\ Opens(d) + k * SlotLength \in 0 .. Closes(d) - SlotLength
<1>1. PICK d \in Searched : s \in Slots(d)
  BY DEF Candidates
<1> QED
  BY <1>1, SearchedDays DEF Slots, Instant, Candidates

LEMMA CandidatesAreTimes == SearchTyped => Candidates \subseteq Nat
<1> SUFFICES ASSUME SearchTyped, NEW s \in Candidates PROVE s \in Nat
  OBVIOUS
<1> QED
  BY CandidateIs, SearchAssumption DEF Days

\* The slot the search has come to is the next of all candidates, if it is one.
LEMMA OneAtATime ==
  ASSUME SearchInv, place.pc = "slot", NEW s \in Candidates, s >= Here, s < Here + SlotLength,
         FitsBefore(place.cursor, place.day)
  PROVE  s = Here
<1>1. PICK d \in Searched, k \in 0 .. DayLength :
        /\ hours[d] # Shut /\ d \in Days /\ s = d * DayLength + (Opens(d) + k * SlotLength)
        /\ Opens(d) + k * SlotLength \in 0 .. Closes(d) - SlotLength
  BY CandidateIs DEF SearchInv
<1>2. PICK j \in 0 .. DayLength : place.cursor = Opens(place.day) + j * SlotLength
  BY DEF SearchInv, PlaceInOrder
<1>3. place.day \in Days /\ hours[place.day] # Shut /\ Days \subseteq Nat
  BY SearchedDays DEF SearchInv, PlaceInOrder
<1>4. /\ Closes(d) \in 0 .. DayLength /\ Opens(d) \in 0 .. DayLength
      /\ Closes(place.day) \in 0 .. DayLength /\ Opens(place.day) \in 0 .. DayLength
  BY <1>1, <1>3, HoursOf DEF SearchInv
<1>5. DayLength \in Nat /\ SlotLength \in Nat /\ SlotLength > 0
  BY SearchAssumption
<1>6. j * SlotLength \in Nat /\ k * SlotLength \in Nat /\ d * DayLength \in Nat /\ place.day * DayLength \in Nat
  <2>1. d \in Nat /\ place.day \in Nat
    BY <1>1, <1>3
  <2> QED
    BY <1>5, <2>1, SlotsAreLong
<1> DEFINE e == place.day
<1>7. Here = e * DayLength + place.cursor /\ place.cursor + SlotLength <= Closes(e)
  BY DEF Here, Instant, FitsBefore
<1> HIDE DEF e
<1>8. d = e
  <2>1. CASE d < e
    <3>1. d * DayLength + DayLength <= e * DayLength
      BY <1>1, <1>3, <2>1, DaysFollow DEF e
    <3> QED
      BY <1>1, <1>2, <1>4, <1>5, <1>6, <1>7, <3>1 DEF e
  <2>2. CASE e < d
    <3>1. e * DayLength + DayLength <= d * DayLength
      BY <1>1, <1>3, <2>2, DaysFollow DEF e
    <3> QED
      BY <1>1, <1>2, <1>4, <1>5, <1>6, <1>7, <3>1 DEF e
  <2>3. d \in Nat /\ e \in Nat
    BY <1>1, <1>3 DEF e
  <2> QED
    BY <2>1, <2>2, <2>3
<1>9. k = j
  <2>1. CASE k < j
    <3>1. k * SlotLength + SlotLength <= j * SlotLength
      BY <2>1, SlotsFollow
    <3> QED
      BY <1>1, <1>2, <1>4, <1>5, <1>6, <1>7, <1>8, <3>1 DEF e
  <2>2. CASE j < k
    <3>1. j * SlotLength + SlotLength <= k * SlotLength
      BY <2>2, SlotsFollow
    <3> QED
      BY <1>1, <1>2, <1>4, <1>5, <1>6, <1>7, <1>8, <3>1 DEF e
  <2> QED
    BY <2>1, <2>2
<1> QED
  BY <1>1, <1>2, <1>7, <1>8, <1>9 DEF e

----------------------------------------------------------------------------
(* The search                                                              *)

LEMMA SearchStart == SearchInit => SearchInv
<1> SUFFICES ASSUME SearchInit PROVE SearchInv
  OBVIOUS
<1>1. SearchTyped
  BY SearchAssumption DEF SearchInit, SearchTyped, Days, NoDay
<1>2. offered = <<>> /\ Offers = {} /\ Len(offered) = 0 /\ place.pc = "day" /\ DOMAIN offered = {}
  BY DEF SearchInit, Offers
<1>3. OffersAreRight
  BY <1>1, <1>2, SearchAssumption DEF SearchInit, OffersAreRight, SearchTypeOK, OffersAreOpen, NothingMissed, SearchTyped
<1>4. place.day \in Searched
  BY SearchAssumption DEF SearchInit, Searched, Days, NoDay
<1>5. BehindIsCovered
  <2> SUFFICES ASSUME NEW s \in Candidates, s < Here PROVE FALSE
    BY DEF BehindIsCovered
  <2>1. PICK d \in Searched, k \in 0 .. DayLength :
          /\ hours[d] # Shut /\ d \in Days /\ s = d * DayLength + (Opens(d) + k * SlotLength)
          /\ Opens(d) + k * SlotLength \in Nat
    BY <1>1, CandidateIs
  <2>2. place.day = d \/ place.day < d
    BY <1>1, SearchAssumption DEF SearchInit, Searched, Days, NoDay
  <2>3. place.day * DayLength <= d * DayLength /\ d * DayLength \in Nat /\ place.day * DayLength \in Nat
    <3>1. place.day \in Nat /\ d \in Nat /\ DayLength \in Nat
      BY <1>1, <1>4, <2>1, SearchedDays, SearchAssumption
    <3> QED
      BY <2>2, <3>1, DaysFollow
  <2> QED
    BY <1>2, <2>1, <2>3 DEF Here
<1> QED
  BY <1>1, <1>2, <1>3, <1>4, <1>5, SearchAssumption DEF SearchInv, PlaceInOrder, OffersBehind

\* While nothing is offered, the search moves forward over what is covered.
LEMMA MovesKeep ==
  ASSUME SearchInv,
         hours' = hours, asked' = asked, present' = present, offered' = offered,
         taken' = taken, ever' = ever, always' = always,
         place.pc # "done", SearchTyped', PlaceInOrder',
         place'.pc = "done" \/ Here <= Here',
         place'.pc = "done" => place.day = Horizon,
         Here \in Nat, Here' \in Nat,
         \A s \in Candidates : s >= Here /\ (s < Here' \/ place'.pc = "done") => Covered(s)
  PROVE  SearchInv'
<1>1. Candidates' = Candidates /\ Offers' = Offers /\ \A s : Covered(s)' <=> Covered(s)
  BY DEF Candidates, Searched, Slots, Opens, Closes, Instant, Offers, Covered, Clash
<1>2. Candidates \subseteq Nat
  BY CandidatesAreTimes DEF SearchInv
<1>3. \A s \in Candidates : s < Here \/ s >= Here
  BY <1>2
<1>4. SearchTypeOK' /\ OffersAreOpen'
  BY <1>1 DEF SearchInv, OffersAreRight, SearchTypeOK, OffersAreOpen, SearchTyped, Clash
<1>5. OffersBehind'
  <2>1. \A i \in DOMAIN offered : offered[i] \in Nat
    BY DEF SearchInv, SearchTyped
  <2> QED
    BY <2>1, SearchAssumption DEF SearchInv, OffersBehind
<1>6. BehindIsCovered'
  BY <1>1, <1>3 DEF SearchInv, BehindIsCovered
<1>7. NothingMissed'
  BY <1>1, <1>3 DEF SearchInv, BehindIsCovered, NothingMissed, Covered, Clash
<1> QED
  BY <1>4, <1>5, <1>6, <1>7 DEF SearchInv, OffersAreRight

LEMMA NextIs ==
  ASSUME SearchTyped, NEW d \in Searched
  PROVE  /\ d \in Nat /\ NextDay(d) \in 0 .. Horizon /\ NextDay(d) \in Searched \union {Horizon}
         /\ d * DayLength \in Nat /\ NextDay(d) * DayLength \in Nat
         /\ d * DayLength + DayLength <= NextDay(d) * DayLength
<1>1. d \in Nat /\ d < NextDay(d) /\ NextDay(d) \in 0 .. Horizon /\ NextDay(d) \in Searched \union {Horizon}
  BY SearchedDays, SearchAssumption DEF NextDay, Searched, Days
<1> QED
  BY <1>1, DaysFollow, SearchAssumption

\* The candidates before the next day are slots of this one.
LEMMA DayOf ==
  ASSUME SearchTyped, NEW d \in Searched, NEW s \in Candidates,
         s >= d * DayLength, s < NextDay(d) * DayLength
  PROVE  /\ hours[d] # Shut
         /\ \E k \in 0 .. DayLength :
              /\ s = d * DayLength + (Opens(d) + k * SlotLength)
              /\ Opens(d) + k * SlotLength \in 0 .. Closes(d) - SlotLength
<1>1. PICK e \in Searched, k \in 0 .. DayLength :
        /\ hours[e] # Shut /\ e \in Days /\ s = e * DayLength + (Opens(e) + k * SlotLength)
        /\ Opens(e) + k * SlotLength \in 0 .. Closes(e) - SlotLength
  BY CandidateIs
<1>2. d \in Nat /\ e \in Nat /\ DayLength \in Nat /\ SlotLength \in Nat /\ SlotLength > 0
  BY SearchedDays, SearchAssumption
<1>3. Closes(e) \in 0 .. DayLength
  BY <1>1, HoursOf
<1> DEFINE c == Opens(e) + k * SlotLength
<1>4. c \in Nat /\ c < DayLength /\ s = e * DayLength + c
  BY <1>1, <1>2, <1>3
<1> HIDE DEF c
<1>5. d = e
  <2>1. CASE asked # NoDay
    BY <2>1 DEF Searched
  <2>2. CASE asked = NoDay /\ e < d
    <3>1. e * DayLength + DayLength <= d * DayLength /\ e * DayLength \in Nat /\ d * DayLength \in Nat
      BY <1>2, <2>2, DaysFollow
    <3> QED
      BY <1>2, <1>4, <3>1
  <2>3. CASE asked = NoDay /\ d < e
    <3>1. d + 1 = e \/ d + 1 < e
      BY <1>2, <2>3
    <3>2. (d + 1) * DayLength <= e * DayLength /\ e * DayLength \in Nat /\ (d + 1) * DayLength \in Nat
      BY <1>2, <3>1, DaysFollow
    <3> QED
      BY <1>2, <1>4, <2>3, <3>2 DEF NextDay
  <2> QED
    BY <1>2, <2>1, <2>2, <2>3
<1> QED
  BY <1>1, <1>5

LEMMA SearchDayKeeps == ASSUME SearchInv, SearchDay PROVE SearchInv'
<1> DEFINE d == place.day
<1>1. /\ place.pc = "day" /\ d \in Searched /\ SearchTyped /\ Here = d * DayLength
      /\ hours' = hours /\ asked' = asked /\ present' = present /\ offered' = offered
      /\ taken' = taken /\ ever' = ever /\ always' = always
  BY SearchAssumption DEF SearchDay, SearchInv, PlaceInOrder, Here, SearchTyped
<1>2. /\ NextDay(d) \in 0 .. Horizon /\ NextDay(d) \in Searched \union {Horizon} /\ d \in Days
      /\ d * DayLength \in Nat /\ NextDay(d) * DayLength \in Nat /\ DayLength \in Nat
      /\ d * DayLength + DayLength <= NextDay(d) * DayLength
  BY <1>1, NextIs, SearchedDays, SearchAssumption
<1>3. Searched' = Searched
  BY <1>1 DEF Searched
<1>4. CASE hours[d] = Shut
  <2>1. place' = [place EXCEPT !.day = NextDay(d)]
    BY <1>4 DEF SearchDay
  <2>2. place' \in [pc : {"day", "slot", "done"}, day : 0 .. Horizon, cursor : 0 .. DayLength]
        /\ place'.pc = "day" /\ place'.day = NextDay(d)
    BY <1>1, <1>2, <2>1 DEF SearchTyped
  <2>3. SearchTyped' /\ PlaceInOrder' /\ Here' = NextDay(d) * DayLength
    BY <1>1, <1>2, <1>3, <2>2 DEF SearchTyped, PlaceInOrder, Here
  <2>4. ASSUME NEW s \in Candidates, s >= Here, s < Here' PROVE FALSE
    BY <1>1, <1>4, <2>3, <2>4, DayOf
  <2> QED
    BY <1>1, <1>2, <2>2, <2>3, <2>4, MovesKeep
<1>5. CASE hours[d] # Shut
  <2>1. place' = [place EXCEPT !.pc = "slot", !.cursor = Opens(d)]
    BY <1>5 DEF SearchDay
  <2>2. Opens(d) \in 0 .. DayLength
    BY <1>1, <1>2, <1>5, HoursOf
  <2>3. place' \in [pc : {"day", "slot", "done"}, day : 0 .. Horizon, cursor : 0 .. DayLength]
        /\ place'.pc = "slot" /\ place'.day = d /\ place'.cursor = Opens(d)
    BY <1>1, <2>1, <2>2 DEF SearchTyped
  <2>4. Here' = d * DayLength + Opens(d)
    BY <2>3 DEF Here, Instant
  <2>5. SearchTyped'
    BY <1>1, <2>3 DEF SearchTyped
  <2>6. PlaceInOrder'
    <3>1. 0 \in 0 .. DayLength /\ Opens(d) = Opens(d) + 0 * SlotLength
      <4>1. 0 * SlotLength = 0
        BY SearchAssumption
      <4> QED
        BY <1>2, <2>2, <4>1
    <3>2. Opens(place.day)' = Opens(d)
      BY <1>1, <2>3 DEF Opens
    <3> QED
      BY <1>1, <1>3, <1>5, <2>3, <3>1, <3>2 DEF PlaceInOrder
  <2>7. ASSUME NEW s \in Candidates, s >= Here, s < Here' PROVE FALSE
    <3>1. s \in Int
      BY <1>1, CandidatesAreTimes
    <3>2. PICK k \in 0 .. DayLength : s = d * DayLength + (Opens(d) + k * SlotLength)
      BY <1>1, <1>2, <2>2, <2>4, <2>7, <3>1, DayOf
    <3> QED
      BY <1>2, <2>2, <2>4, <2>7, <3>2, SlotsAreLong
  <2> QED
    BY <1>1, <1>2, <2>2, <2>3, <2>4, <2>5, <2>6, <2>7, MovesKeep
<1> QED
  BY <1>4, <1>5

LEMMA DayIsOverKeeps == ASSUME SearchInv, DayIsOver PROVE SearchInv'
<1> DEFINE d == place.day
<1>1. /\ place.pc = "slot" /\ d \in Searched /\ SearchTyped /\ Here = d * DayLength + place.cursor
      /\ ~ FitsBefore(place.cursor, d) /\ hours[d] # Shut /\ place.cursor \in 0 .. DayLength
      /\ hours' = hours /\ asked' = asked /\ present' = present /\ offered' = offered
      /\ taken' = taken /\ ever' = ever /\ always' = always
  BY DEF DayIsOver, SearchInv, PlaceInOrder, Here, Instant, SearchTyped
<1>2. /\ NextDay(d) \in 0 .. Horizon /\ NextDay(d) \in Searched \union {Horizon} /\ d \in Days
      /\ d * DayLength \in Nat /\ NextDay(d) * DayLength \in Nat /\ DayLength \in Nat /\ SlotLength \in Nat
      /\ d * DayLength + DayLength <= NextDay(d) * DayLength
  BY <1>1, NextIs, SearchedDays, SearchAssumption
<1>3. Closes(d) \in 0 .. DayLength /\ Opens(d) \in 0 .. DayLength /\ place.cursor + SlotLength > Closes(d)
  BY <1>1, <1>2, HoursOf DEF FitsBefore
<1>4. place' = [pc |-> "day", day |-> NextDay(d), cursor |-> 0]
  BY DEF DayIsOver
<1>5. Searched' = Searched
  BY <1>1 DEF Searched
<1>6. SearchTyped' /\ PlaceInOrder' /\ Here' = NextDay(d) * DayLength
  BY <1>1, <1>2, <1>4, <1>5 DEF SearchTyped, PlaceInOrder, Here
<1>7. ASSUME NEW s \in Candidates, s >= Here, s < Here' PROVE FALSE
  <2>1. s \in Int
    BY <1>1, CandidatesAreTimes
  <2>2. PICK k \in 0 .. DayLength : /\ s = d * DayLength + (Opens(d) + k * SlotLength)
                                    /\ Opens(d) + k * SlotLength \in 0 .. Closes(d) - SlotLength
    <3>1. s >= d * DayLength /\ s < NextDay(d) * DayLength
      BY <1>1, <1>2, <1>6, <1>7, <2>1
    <3> QED
      BY <1>1, <3>1, DayOf
  <2> QED
    BY <1>1, <1>2, <1>3, <1>7, <2>2
<1>8. Here \in Nat /\ Here' \in Nat /\ Here <= Here'
  BY <1>1, <1>2, <1>6
<1> QED
  BY <1>1, <1>4, <1>6, <1>7, <1>8, MovesKeep

LEMMA FinishedKeeps == ASSUME SearchInv, Finished PROVE SearchInv'
<1>1. /\ place.pc = "day" /\ place.day = Horizon /\ SearchTyped /\ Here = Horizon * DayLength
      /\ place' = [place EXCEPT !.pc = "done"]
      /\ hours' = hours /\ asked' = asked /\ present' = present /\ offered' = offered
      /\ taken' = taken /\ ever' = ever /\ always' = always
  BY DEF Finished, SearchInv, Here
<1>2. place' \in [pc : {"day", "slot", "done"}, day : 0 .. Horizon, cursor : 0 .. DayLength]
      /\ place'.pc = "done" /\ place'.day = Horizon
  BY <1>1 DEF SearchTyped
<1>3. SearchTyped' /\ PlaceInOrder' /\ Here' = Horizon * DayLength
  BY <1>1, <1>2 DEF SearchTyped, PlaceInOrder, Here
<1>4. Horizon * DayLength \in Nat
  BY SearchAssumption
<1>5. ASSUME NEW s \in Candidates, s >= Here PROVE FALSE
  <2>1. PICK d \in Searched, k \in 0 .. DayLength :
          /\ hours[d] # Shut /\ d \in Days /\ s = d * DayLength + (Opens(d) + k * SlotLength)
          /\ Opens(d) + k * SlotLength \in 0 .. Closes(d) - SlotLength
    BY <1>1, CandidateIs
  <2>2. Closes(d) \in 0 .. DayLength /\ DayLength \in Nat /\ SlotLength \in Nat /\ SlotLength > 0
    BY <1>1, <2>1, HoursOf, SearchAssumption
  <2>3. d * DayLength + DayLength <= Horizon * DayLength /\ d * DayLength \in Nat
    BY <2>1, DaysFollow, SearchAssumption DEF Days
  <2> QED
    BY <1>1, <1>4, <1>5, <2>1, <2>2, <2>3
<1> QED
  BY <1>1, <1>2, <1>3, <1>4, <1>5, MovesKeep

\* Where TrySlot stands: in the hours of a day, at one of its slots.
LEMMA AtASlot ==
  ASSUME SearchInv, TrySlot
  PROVE  /\ place.pc = "slot" /\ Here = Instant(place.day, place.cursor) /\ Here \in Nat
         /\ place.cursor + SlotLength \in 0 .. DayLength
         /\ Here > present => Here \in Candidates
         /\ \E k \in 0 .. DayLength : place.cursor + SlotLength = Opens(place.day) + k * SlotLength
<1> DEFINE d == place.day
           c == place.cursor
<1>1. /\ place.pc = "slot" /\ FitsBefore(c, d) /\ d \in Searched /\ hours[d] # Shut /\ SearchTyped
      /\ c \in 0 .. DayLength /\ Here = Instant(d, c)
  BY DEF TrySlot, SearchInv, PlaceInOrder, SearchTyped, Here
<1>2. PICK k \in 0 .. DayLength : c = Opens(d) + k * SlotLength
  BY <1>1 DEF SearchInv, PlaceInOrder
<1>3. /\ Opens(d) \in 0 .. DayLength /\ Closes(d) \in 0 .. DayLength /\ d \in Nat /\ d * DayLength \in Nat
      /\ DayLength \in Nat /\ SlotLength \in Nat /\ SlotLength > 0
  BY <1>1, SearchedDays, HoursOf, NextIs, SearchAssumption
<1>4. c + SlotLength <= Closes(d)
  BY <1>1 DEF FitsBefore
<1>5. c \in 0 .. Closes(d) - SlotLength
  BY <1>1, <1>3, <1>4
<1>6. (k + 1) * SlotLength = k * SlotLength + SlotLength /\ k * SlotLength \in Nat /\ k + 1 <= (k + 1) * SlotLength
  BY <1>2, <1>3, SlotsAreLong
<1>7. k + 1 \in 0 .. DayLength /\ c + SlotLength = Opens(d) + (k + 1) * SlotLength
  BY <1>2, <1>3, <1>4, <1>6
<1>8. Here \in Slots(d)
  BY <1>1, <1>2, <1>5 DEF Slots
<1>9. Here > present => Here \in Candidates
  BY <1>1, <1>8 DEF Candidates
<1>10. Here \in Nat
  BY <1>1, <1>3 DEF Instant
<1>11. c + SlotLength \in 0 .. DayLength
  BY <1>1, <1>3, <1>4
<1> QED
  BY <1>1, <1>7, <1>9, <1>10, <1>11

LEMMA SlotPassedKeeps ==
  ASSUME SearchInv, TrySlot, ~ (Here > present /\ IsFree(Here))
  PROVE  SearchInv'
<1> DEFINE c == place.cursor + SlotLength
<1>1. /\ SearchTyped /\ offered' = offered /\ place' = [place EXCEPT !.cursor = c] /\ place.pc = "slot"
      /\ hours' = hours /\ asked' = asked /\ present' = present
      /\ taken' = taken /\ ever' = ever /\ always' = always
  <2>1. Len(offered) < Most /\ Len(offered) \in Nat /\ Most \in Nat
    BY AtASlot, SearchAssumption DEF SearchInv, SearchTyped, OffersBehind
  <2> QED
    BY <2>1, AtASlot DEF TrySlot, SearchInv
<1>2. c \in 0 .. DayLength /\ \E k \in 0 .. DayLength : c = Opens(place.day) + k * SlotLength
  BY AtASlot
<1> HIDE DEF c
<1>3. /\ place' \in [pc : {"day", "slot", "done"}, day : 0 .. Horizon, cursor : 0 .. DayLength]
      /\ place'.pc = "slot" /\ place'.day = place.day /\ place'.cursor = c
  BY <1>1, <1>2 DEF SearchTyped
<1>4. SearchTyped' /\ Here' = Instant(place.day, c)
  BY <1>1, <1>3 DEF SearchTyped, Here, Instant
<1>5. Here' = Here + SlotLength /\ Here \in Nat /\ SlotLength \in Nat
  <2>1. place.day * DayLength \in Nat /\ SlotLength \in Nat /\ place.cursor \in Nat
    BY <1>1, SearchAssumption DEF SearchTyped
  <2> QED
    BY <1>4, <2>1, AtASlot DEF Instant, c
<1>6. PlaceInOrder'
  <2>1. Searched' = Searched /\ Opens(place.day)' = Opens(place.day)
    BY <1>1, <1>3 DEF Searched, Opens
  <2> QED
    BY <1>1, <1>2, <1>3, <2>1 DEF SearchInv, PlaceInOrder
<1>7. ASSUME NEW s \in Candidates, s >= Here, s < Here' PROVE Covered(s)
  <2>1. s = Here
    BY <1>1, <1>5, <1>7, OneAtATime DEF TrySlot
  <2>2. Here > present
    BY <2>1 DEF Candidates
  <2> QED
    BY <2>1, <2>2 DEF IsFree, Covered, SearchInv, OffersAreRight, SearchTypeOK
<1> QED
  BY <1>1, <1>3, <1>4, <1>5, <1>6, <1>7, MovesKeep

LEMMA SlotOfferedKeeps ==
  ASSUME SearchInv, TrySlot, Here > present, IsFree(Here)
  PROVE  SearchInv'
<1> DEFINE c == place.cursor + SlotLength
<1>1. /\ SearchTyped /\ offered' = Append(offered, Here) /\ place.pc = "slot" /\ Here \in Candidates
      /\ hours' = hours /\ asked' = asked /\ present' = present
      /\ taken' = taken /\ ever' = ever /\ always' = always
      /\ place' = IF Len(offered') >= Most THEN [place EXCEPT !.pc = "done"] ELSE [place EXCEPT !.cursor = c]
  BY AtASlot DEF TrySlot, SearchInv
<1>2. c \in 0 .. DayLength /\ \E k \in 0 .. DayLength : c = Opens(place.day) + k * SlotLength
  BY AtASlot
<1>3. /\ offered \in Seq(Nat) /\ Len(offered) \in Nat /\ Len(offered) < Most /\ Most \in Nat /\ Here \in Nat
      /\ SlotLength \in Nat /\ \A i \in DOMAIN offered : offered[i] \in Nat /\ offered[i] + SlotLength <= Here
  BY <1>1, AtASlot, SearchAssumption DEF SearchInv, SearchTyped, OffersBehind
<1>4. /\ offered' \in Seq(Nat) /\ Len(offered') = Len(offered) + 1
      /\ DOMAIN offered = 1 .. Len(offered) /\ DOMAIN offered' = 1 .. Len(offered) + 1
      /\ \A i \in DOMAIN offered : offered'[i] = offered[i]
      /\ offered'[Len(offered) + 1] = Here
  BY <1>1, <1>3
<1>5. Offers' = Offers \union {Here}
  <2>1. \A i \in DOMAIN offered' : i \in DOMAIN offered \/ i = Len(offered) + 1
    BY <1>3, <1>4
  <2>2. DOMAIN offered \subseteq DOMAIN offered' /\ Len(offered) + 1 \in DOMAIN offered'
    BY <1>3, <1>4
  <2> QED
    BY <1>4, <2>1, <2>2 DEF Offers
<1>6. Candidates' = Candidates /\ Searched' = Searched
  BY <1>1 DEF Candidates, Searched, Slots, Opens, Closes, Instant
<1>7. \A i, j \in DOMAIN offered' : i < j => offered'[i] + SlotLength <= offered'[j]
  <2> SUFFICES ASSUME NEW i \in DOMAIN offered', NEW j \in DOMAIN offered', i < j
               PROVE  offered'[i] + SlotLength <= offered'[j]
    OBVIOUS
  <2>1. i \in DOMAIN offered
    BY <1>3, <1>4
  <2>2. CASE j \in DOMAIN offered
    BY <1>4, <2>1, <2>2 DEF SearchInv, OffersAreRight, SearchTypeOK
  <2>3. CASE j = Len(offered) + 1
    BY <1>3, <1>4, <2>1, <2>3
  <2> QED
    BY <1>3, <1>4, <2>2, <2>3
<1> HIDE DEF c
<1>8. /\ place' \in [pc : {"day", "slot", "done"}, day : 0 .. Horizon, cursor : 0 .. DayLength]
      /\ place'.pc = "done" <=> Len(offered') >= Most
      /\ place'.pc # "done" => place'.pc = "slot" /\ place'.day = place.day /\ place'.cursor = c
  BY <1>1, <1>2 DEF SearchTyped
<1>9. SearchTyped'
  BY <1>1, <1>4, <1>8 DEF SearchTyped
<1>10. place'.pc # "done" => Here' = Here + SlotLength
  <2>1. place.day * DayLength \in Nat /\ SlotLength \in Nat /\ place.cursor \in Nat
    BY <1>1, SearchAssumption DEF SearchTyped
  <2>2. place'.pc # "done" => Here' = Instant(place.day, c)
    BY <1>8 DEF Here, Instant
  <2> QED
    BY <2>1, <2>2, AtASlot DEF Instant, c
<1>11. SearchTypeOK'
  BY <1>1, <1>3, <1>4, <1>7, <1>8 DEF SearchInv, OffersAreRight, SearchTypeOK
<1>12. OffersAreOpen'
  <2>1. \A b \in always : ~ Clash(b, Here)
    BY DEF IsFree, SearchInv, OffersAreRight, SearchTypeOK
  <2> QED
    BY <1>1, <1>5, <1>6, <2>1 DEF SearchInv, OffersAreRight, OffersAreOpen, Clash
<1>13. NothingMissed'
  BY <1>3, <1>4, <1>8 DEF NothingMissed
<1>14. PlaceInOrder'
  <2>1. place'.pc # "done" => Opens(place.day)' = Opens(place.day)
    BY <1>1, <1>8 DEF Opens
  <2> QED
    BY <1>1, <1>2, <1>6, <1>8, <2>1 DEF SearchInv, PlaceInOrder
<1>15. OffersBehind'
  <2> SUFFICES ASSUME place'.pc # "done"
               PROVE  Len(offered') < Most /\ \A i \in DOMAIN offered' : offered'[i] + SlotLength <= Here'
    BY DEF OffersBehind
  <2>1. Len(offered') < Most
    BY <1>3, <1>4, <1>8
  <2>2. ASSUME NEW i \in DOMAIN offered' PROVE offered'[i] + SlotLength <= Here + SlotLength
    <3>1. CASE i \in DOMAIN offered
      BY <1>3, <1>4, <3>1
    <3>2. CASE i = Len(offered) + 1
      BY <1>3, <1>4, <3>2
    <3> QED
      BY <1>3, <1>4, <3>1, <3>2
  <2> QED
    BY <1>10, <2>1, <2>2
<1>16. BehindIsCovered'
  <2> SUFFICES ASSUME place'.pc # "done", NEW s \in Candidates, s < Here' PROVE Covered(s)'
    BY <1>6 DEF BehindIsCovered
  <2>1. CASE s < Here
    BY <1>1, <1>5, <2>1 DEF SearchInv, BehindIsCovered, Covered, Clash
  <2>2. CASE ~ (s < Here)
    <3>1. s \in Nat
      BY <1>1, CandidatesAreTimes
    <3>2. s = Here
      BY <1>1, <1>3, <1>10, <2>2, <3>1, OneAtATime DEF TrySlot
    <3> QED
      BY <1>5, <3>2 DEF Covered
  <2> QED
    BY <2>1, <2>2
<1> QED
  BY <1>9, <1>11, <1>12, <1>13, <1>14, <1>15, <1>16 DEF SearchInv, OffersAreRight

LEMMA OthersKeep ==
  ASSUME SearchInv, NEW s \in Instants, OthersBook(s) \/ OthersCancel(s)
  PROVE  SearchInv'
<1>1. /\ hours' = hours /\ asked' = asked /\ present' = present /\ place' = place /\ offered' = offered
      /\ place.pc # "done" /\ ever \subseteq ever' /\ always' \subseteq always
      /\ always' \subseteq taken' /\ taken' \subseteq ever'
  BY DEF OthersBook, OthersCancel, SearchInv, OffersAreRight, SearchTypeOK
<1>2. Candidates' = Candidates /\ Searched' = Searched /\ Here' = Here /\ Offers' = Offers
  BY <1>1 DEF Candidates, Searched, Slots, Opens, Closes, Instant, Here, Offers
<1>3. OffersAreRight'
  BY <1>1, <1>2 DEF SearchInv, OffersAreRight, SearchTypeOK, OffersAreOpen, NothingMissed, Clash
<1>4. SearchTyped' /\ PlaceInOrder' /\ OffersBehind'
  BY <1>1, <1>2 DEF SearchInv, SearchTyped, PlaceInOrder, OffersBehind, Opens
<1>5. BehindIsCovered'
  BY <1>1, <1>2 DEF SearchInv, BehindIsCovered, Covered, Clash
<1> QED
  BY <1>3, <1>4, <1>5 DEF SearchInv

LEMMA StandingStillKeeps == SearchInv /\ UNCHANGED searchVars => SearchInv'
<1> SUFFICES ASSUME SearchInv, UNCHANGED searchVars PROVE SearchInv'
  OBVIOUS
<1>1. /\ hours' = hours /\ asked' = asked /\ present' = present /\ place' = place /\ offered' = offered
      /\ taken' = taken /\ ever' = ever /\ always' = always
  BY DEF searchVars
<1>2. Candidates' = Candidates /\ Searched' = Searched /\ Here' = Here /\ Offers' = Offers
  BY <1>1 DEF Candidates, Searched, Slots, Opens, Closes, Instant, Here, Offers
<1>3. OffersAreRight'
  BY <1>1, <1>2 DEF SearchInv, OffersAreRight, SearchTypeOK, OffersAreOpen, NothingMissed, Clash
<1>4. SearchTyped' /\ PlaceInOrder' /\ OffersBehind'
  BY <1>1, <1>2 DEF SearchInv, SearchTyped, PlaceInOrder, OffersBehind, Opens
<1>5. BehindIsCovered'
  BY <1>1, <1>2 DEF SearchInv, BehindIsCovered, Covered, Clash
<1> QED
  BY <1>3, <1>4, <1>5 DEF SearchInv

LEMMA SearchKeeps == SearchInv /\ [SearchNext]_searchVars => SearchInv'
  BY SearchDayKeeps, DayIsOverKeeps, FinishedKeeps, SlotPassedKeeps, SlotOfferedKeeps, OthersKeep, StandingStillKeeps
     DEF SearchNext, SearchStep

\* Whatever others book and cancel meanwhile: what is offered is in the hours, in
\* order and free of all that stood throughout, and a list that was not cut off
\* lacks no slot that was free throughout.
THEOREM OffersAreSound == SearchSpec => []OffersAreRight
<1>1. SearchInv => OffersAreRight
  BY DEF SearchInv
<1> QED
  BY SearchStart, SearchKeeps, <1>1, PTL DEF SearchSpec

----------------------------------------------------------------------------
(*************************************************************************)
(* The desk: what is found free stays free until the insert, and how bad *)
(* a double booking can be.                                              *)
(*************************************************************************)

USE DesksAssumption, TimesAssumption

----------------------------------------------------------------------------
(* Types                                                                   *)

LEMMA TypeInit == Init => TypeOK
  BY DEF Init, TypeOK, Starts, Closed, Rows

\* Sessions begin, are refused and end in the same state.
LEMMA ClosedIsTyped ==
  Closed \in [pc : {"closed", "ready", "check", "insert"}, turn : {"chat", "single"},
              start : Starts, mine : SUBSET Rows]
  BY DEF Closed, Starts

\* Every step leaves well formed rows, in the sessions of their own desks.
LEMMA TypeStep == TypeOK /\ [Next]_vars => TypeOK'
<1> SUFFICES ASSUME TypeOK, [Next]_vars PROVE TypeOK'
  OBVIOUS
<1> USE ClosedIsTyped DEF TypeOK, At
<1>1. ASSUME NEW d \in Desks, NEW turn \in {"chat", "single"}, Begin(d, turn) PROVE TypeOK'
  BY <1>1 DEF Begin, Closed
<1>2. ASSUME NEW d \in Desks, NEW s \in Starts, Ask(d, s) PROVE TypeOK'
  BY <1>2 DEF Ask, Refuse, Close, Closed, Starts
<1>3. ASSUME NEW d \in Desks, CheckFree(d) PROVE TypeOK'
  BY <1>3 DEF CheckFree, Refuse, Close, Closed, Starts
<1>4. ASSUME NEW d \in Desks, Insert(d) PROVE TypeOK'
  <2>1. Row(d, desk[d].start, "confirmed") \in Rows
    BY DEF Row, Rows
  <2>2. Row(d, desk[d].start, "confirmed").desk = d
        /\ Row(d, desk[d].start, "confirmed").status = "confirmed"
    BY DEF Row
  <2> QED
    BY <1>4, <2>1, <2>2 DEF Insert, Starts
<1>5. ASSUME NEW d \in Desks, Commit(d) PROVE TypeOK'
  BY <1>5 DEF Commit, Close, Closed
<1>6. ASSUME NEW d \in Desks, Rollback(d) PROVE TypeOK'
  BY <1>6 DEF Rollback, Close, Closed
<1>7. ASSUME NEW b \in bookings, Cancel(b) PROVE TypeOK'
  BY <1>7 DEF Cancel, Rows
<1>8. CASE Tick
  BY <1>8 DEF Tick, Starts
<1>9. CASE UNCHANGED vars
  BY <1>9 DEF vars
<1> QED
  BY <1>1, <1>2, <1>3, <1>4, <1>5, <1>6, <1>7, <1>8, <1>9 DEF Next, Book

\* Bookings keep their shape, and a session holds only rows of its own desk.
THEOREM TypeCorrect == Spec => []TypeOK
<1> QED
  BY TypeInit, TypeStep, PTL DEF Spec

----------------------------------------------------------------------------
(* A desk never overlaps itself                                            *)

\* What makes it inductive: between its check and its insert a session writes
\* nothing, and rows of its desk only go out of view.
CheckedIsFree ==
  \A d \in Desks :
    At(d, "insert") =>
      \A b \in Confirmed(d) : ~Overlap(b.start, desk[d].start)

IInv == TypeOK /\ CheckedIsFree /\ OneDeskNeverOverlaps

LEMMA InvInit == Init => IInv
<1> SUFFICES ASSUME Init PROVE CheckedIsFree /\ OneDeskNeverOverlaps
  BY TypeInit DEF IInv
<1> QED
  BY DEF Init, CheckedIsFree, OneDeskNeverOverlaps, Confirmed, Visible, Closed, At

\* A step of one desk leaves what the others have booked as it is.
LEMMA OthersKeepTheirs ==
  ASSUME TypeOK, NEW d \in Desks, NEW e \in Desks \ {d},
         bookings' \ bookings \subseteq desk[d].mine, desk'[e] = desk[e]
  PROVE  Confirmed(e)' \subseteq Confirmed(e)
  BY DEF TypeOK, Confirmed, Visible

\* What no longer sees a row, and is not about to insert, keeps both facts.
LEMMA FewerRows ==
  ASSUME IInv, NEW e \in Desks, Confirmed(e)' \subseteq Confirmed(e),
         desk'[e] = desk[e] \/ desk'[e].pc # "insert"
  PROVE  /\ (At(e, "insert") => \A b \in Confirmed(e) : ~Overlap(b.start, desk[e].start))'
         /\ (\A b, c \in Confirmed(e) : b # c => ~Overlap(b.start, c.start))'
  BY DEF IInv, CheckedIsFree, OneDeskNeverOverlaps, At, Overlap

LEMMA InvStep == IInv /\ [Next]_vars => IInv'
<1> SUFFICES ASSUME IInv, [Next]_vars PROVE CheckedIsFree' /\ OneDeskNeverOverlaps'
  BY TypeStep DEF IInv
<1>t. TypeOK /\ TypeOK'
  BY TypeStep DEF IInv
\* All steps but two take no row into view and reach no insert.
<1> DEFINE Quiet(e) == /\ Confirmed(e)' \subseteq Confirmed(e)
                       /\ desk'[e] = desk[e] \/ desk'[e].pc # "insert"
<1>q. ASSUME \A e \in Desks : Quiet(e) PROVE CheckedIsFree' /\ OneDeskNeverOverlaps'
  BY <1>q, FewerRows DEF CheckedIsFree, OneDeskNeverOverlaps
<1>1. ASSUME NEW d \in Desks, NEW turn \in {"chat", "single"}, Begin(d, turn)
      PROVE  CheckedIsFree' /\ OneDeskNeverOverlaps'
  BY <1>1, <1>q, <1>t DEF Begin, Closed, TypeOK, Confirmed, Visible
<1>2. ASSUME NEW d \in Desks, NEW s \in Starts, Ask(d, s)
      PROVE  CheckedIsFree' /\ OneDeskNeverOverlaps'
  BY <1>2, <1>q, <1>t DEF Ask, Refuse, Close, Closed, TypeOK, Confirmed, Visible
<1>3. ASSUME NEW d \in Desks, CheckFree(d)
      PROVE  CheckedIsFree' /\ OneDeskNeverOverlaps'
  <2>1. CASE Taken(d, desk[d].start)
    BY <1>3, <2>1, <1>q, <1>t DEF CheckFree, Refuse, Close, Closed, TypeOK, Confirmed, Visible
  <2>2. CASE ~Taken(d, desk[d].start)
    <3>1. desk' = [desk EXCEPT ![d].pc = "insert"] /\ bookings' = bookings
      BY <1>3, <2>2 DEF CheckFree
    <3>2. \A e \in Desks : Confirmed(e)' = Confirmed(e) /\ desk'[e].start = desk[e].start
                           /\ (e # d => desk'[e] = desk[e])
      BY <3>1, <1>t DEF TypeOK, Confirmed, Visible
    <3>3. \A b \in Confirmed(d) : ~Overlap(b.start, desk[d].start)
      BY <2>2 DEF Taken, Confirmed
    <3> QED
      BY <3>2, <3>3 DEF IInv, CheckedIsFree, OneDeskNeverOverlaps, At, Overlap
  <2> QED
    BY <2>1, <2>2
<1>4. ASSUME NEW d \in Desks, Insert(d)
      PROVE  CheckedIsFree' /\ OneDeskNeverOverlaps'
  <2> DEFINE new == Row(d, desk[d].start, "confirmed")
  <2>1. \A e \in Desks \ {d} : Quiet(e)
    BY <1>4, <1>t DEF Insert, TypeOK, Confirmed, Visible
  <2>2. desk'[d].pc = "ready" /\ Confirmed(d)' = Confirmed(d) \union {new}
    BY <1>4, <1>t DEF Insert, TypeOK, Confirmed, Visible, Row
  <2>3. new.start = desk[d].start
    BY DEF Row
  <2> HIDE DEF new
  <2>4. \A b \in Confirmed(d) : ~Overlap(b.start, new.start) /\ ~Overlap(new.start, b.start)
    BY <1>4, <2>3 DEF Insert, At, IInv, CheckedIsFree, Overlap
  <2>5. \A b, c \in Confirmed(d)' : b # c => ~Overlap(b.start, c.start)
    BY <2>2, <2>4 DEF IInv, OneDeskNeverOverlaps
  <2>6. \A e \in Desks \ {d} :
          /\ (At(e, "insert") => \A b \in Confirmed(e) : ~Overlap(b.start, desk[e].start))'
          /\ (\A b, c \in Confirmed(e) : b # c => ~Overlap(b.start, c.start))'
    BY <2>1, FewerRows
  <2> QED
    BY <2>2, <2>5, <2>6 DEF CheckedIsFree, OneDeskNeverOverlaps, At, Overlap
<1>5. ASSUME NEW d \in Desks, Commit(d)
      PROVE  CheckedIsFree' /\ OneDeskNeverOverlaps'
  <2>1. bookings' = bookings \union desk[d].mine /\ desk' = [desk EXCEPT ![d] = Closed]
    BY <1>5 DEF Commit, Close
  <2>2. ASSUME NEW e \in Desks \ {d} PROVE Quiet(e)
    BY <2>1, <1>t, OthersKeepTheirs DEF TypeOK
  <2>3. Quiet(d)
    BY <2>1, <1>t DEF TypeOK, Closed, Confirmed, Visible
  <2> QED
    BY <2>2, <2>3, <1>q
<1>6. ASSUME NEW d \in Desks, Rollback(d)
      PROVE  CheckedIsFree' /\ OneDeskNeverOverlaps'
  BY <1>6, <1>q, <1>t DEF Rollback, Close, Closed, TypeOK, Confirmed, Visible
<1>7. ASSUME NEW b \in bookings, Cancel(b)
      PROVE  CheckedIsFree' /\ OneDeskNeverOverlaps'
  <2>1. [b EXCEPT !.status = "cancelled"].status = "cancelled"
    BY <1>t DEF TypeOK, Rows
  <2>2. bookings' = (bookings \ {b}) \union {[b EXCEPT !.status = "cancelled"]} /\ desk' = desk
    BY <1>7 DEF Cancel
  <2>3. \A e \in Desks : Quiet(e)
    BY <2>1, <2>2 DEF Confirmed, Visible
  <2> QED
    BY <2>3, <1>q
<1>8. CASE Tick
  BY <1>8, <1>q DEF Tick, Confirmed, Visible
<1>9. CASE UNCHANGED vars
  BY <1>9, <1>q DEF vars, Confirmed, Visible
<1> QED
  BY <1>1, <1>2, <1>3, <1>4, <1>5, <1>6, <1>7, <1>8, <1>9 DEF Next, Book

LEMMA InvHolds == Spec => []IInv
<1> QED
  BY InvInit, InvStep, PTL DEF Spec

\* All that one desk books, committed or not, is free of overlaps.
THEOREM NoDeskOverlapsItself == Spec => []OneDeskNeverOverlaps
<1>1. IInv => OneDeskNeverOverlaps
  BY DEF IInv
<1> QED
  BY <1>1, InvHolds, PTL

----------------------------------------------------------------------------
(* How bad a double booking can be                                         *)

\* The appointments over one moment overlap each other, so no two of them are
\* of the same desk: they are at most as many as there are desks.
LEMMA OneEach == IInv => OverbookingBounded
<1> SUFFICES ASSUME IInv, NEW t \in Starts PROVE Cardinality(Covering(t)) <= Cardinality(Desks)
  BY DEF OverbookingBounded
<1> DEFINE f == [b \in Covering(t) |-> b.desk]
<1>1. \A b \in Covering(t) : b \in Rows /\ b \in Confirmed(b.desk)
  BY DEF IInv, TypeOK, Covering, Confirmed, Visible
<1>2. \A b, c \in Covering(t) : Overlap(b.start, c.start)
  <2>1. \A b \in Covering(t) : b.start \in Nat /\ b.start <= t /\ t < b.start + Slot
    BY <1>1 DEF Covering, Rows, Starts
  <2> QED
    BY <2>1 DEF Overlap, Starts
<1>3. \A b, c \in Covering(t) : b.desk = c.desk => b = c
  BY <1>1, <1>2 DEF IInv, OneDeskNeverOverlaps, Rows
<1>4. f \in Injection(Covering(t), Desks)
  BY <1>1, <1>3 DEF Rows, Injection, IsInjective
<1> QED
  BY <1>4, FS_Injection

\* No moment is booked more often than sessions can be open at the same time,
\* however they interleave.
THEOREM OverbookingIsBounded == Spec => []OverbookingBounded
<1> QED
  BY InvHolds, OneEach, PTL

============================================================================
