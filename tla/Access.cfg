SPECIFICATION Spec
CONSTANTS
    r1 = r1
    r2 = r2
    d1 = d1
    d2 = d2
    None = None
    Requests = {r1, r2}
    Dids = {d1, d2}
    Collections = {"app.post", "app.like"}
    Methods = {"server.createAppPassword", "server.activateAccount", "server.deactivateAccount", "server.getServiceAuth", "server.refreshSession", "admin.updateSubjectStatus", "repo.createRecord", "repo.applyWrites", "repo.importRepo", "repo.uploadBlob", "identity.signPlcOperation", "identity.updateHandle", "app.bsky.actor.getPreferences", "app.bsky.feed.getTimeline", "repo.describeRepo", "repo.getRecord", "repo.listRecords", "sync.getRepo", "sync.getBlob", "sync.listBlobs", "sync.getBlocks", "sync.getRecord", "sync.getLatestCommit", "sync.getRepoStatus", "sync.listRepos", "server.getSession", "admin.getSubjectStatus"}
    Audiences = {"pds", "appview"}
    Grants <- MCGrants
    Pds = "pds"
    Appview = "appview"
    MaxCalls = 3
SYMMETRY Interchangeable
INVARIANTS
    StatusHolds
    
    
CHECK_DEADLOCK FALSE
