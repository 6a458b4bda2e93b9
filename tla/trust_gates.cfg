\* Two calls through the trust and attestation gates.
CONSTANTS
  Calls = {t1, t2}
  Cards <- MCCards
  Documents <- MCDocuments
  Configs <- MCConfigs
  Keys <- MCKeys
  Empty = Empty
  Policy = {"ci"}
  MaxChanges = 3
  None = None
  ka = ka
  kb = kb
  bundle = bundle
  other = other
SYMMETRY Symmetry
SPECIFICATION Spec
CHECK_DEADLOCK FALSE
INVARIANT OneGenesis
INVARIANT GatesSeeSameCard
INVARIANT SentWithEvidence
