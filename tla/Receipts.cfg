\* A message of ours and one of another device, two recipients.
SPECIFICATION Spec
CONSTANTS
    ours = ours
    synced = synced
    r1 = r1
    r2 = r2
    Messages = {ours, synced}
    Recipients = {r1, r2}
    Synced = {synced}
    Receipts <- MCReceipts
    MaxAttempts = 2
    MaxEvents = 1
INVARIANTS
    ConfirmedIsDurable
PROPERTIES
    EveryReceiptLands
    NeverBackwards
CHECK_DEADLOCK FALSE
