\* A scheduled issuance of the second product, or a manual one of the first.  Other
\* publishers are Correct.
SPECIFICATION FairSpec
CONSTANTS
  Issuances = {sched, manual}
  Scheduled = {sched}
  V2 = {sched}
  Core = {w}
  Saved = {a}
  Benchmark = spy
  Witness = w
  None = None
  MaxVintage = 2
  MaxCorrections = 1
INVARIANTS
  TypeOK
  RequestsOnlyWhileOpen
  SuccessComplete
PROPERTIES
  MarketNeverRegresses
  ImplementsEvidence
  CommittedEventuallySucceeds
  AdmittedEventuallyIssued
