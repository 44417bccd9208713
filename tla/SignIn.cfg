SPECIFICATION Spec
CONSTANTS
    None = None
    cli = cli
    desktop = desktop
    Emails = {ann, bob}
    Founder = founder
    Devices = {cli, desktop}
    Platform <- MCPlatform
    Invites = {inv}
    OTP_TTL_SECS = 1
    OTP_RESEND_COOLDOWN_SECS = 1
    OTP_MAX_ATTEMPTS = 1
    EMAIL_CODE_RETENTION_SECS = 0
    INVITE_TTL_SECS = 1
    SESSION_TTL_SECS = 1
    REDEEM_WINDOW = 0
    REDEEM_MAX_FAILURES = 1
    MaxCodes = 2
    MaxUsers = 3
    MaxTokens = 2
    MaxTime = 1
INVARIANTS
    CodeBudget
    InviteMakesOneAccount
    InviteListingHonest
SYMMETRY Symmetry
CHECK_DEADLOCK FALSE
