\* A secret is rotated after the hook was resumed.
CONSTANTS
    Hooks = {h1}
    Calls = {c1, c2, c3}
    MaxAttempts = 2
    Threshold = 2
    RateCap = 2
    MaxActive = 1
SPECIFICATION WebhookSpec
SYMMETRY Symmetry
PROPERTY ResumeResetsCounter
