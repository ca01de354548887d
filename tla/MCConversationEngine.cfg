CONSTANTS
  p1 = p1
  p2 = p2
  phone = phone
  slot = slot
  none = none
  Fields = {phone, slot}
  Required <- MCRequired
  Spoken = {slot}
  Phone = phone
  Values = {p1, p2}
  NoValue = none
  Utterances <- MCUtterances
  Profiles <- MCProfiles
  MaxUnclear = 2
  MaxBookings = 1
SPECIFICATION Spec
INVARIANTS
  DraftOnlyWhileBooking
  UnclearCallerIsOffered
  AgreementAnswersItsQuestion
PROPERTIES
  BookedOnlyAsAgreed
  ImplementsConsent
  ImplementsTurns
